---- MODULE Spec2Model ----
(***************************************************************************)
(* Metrics normalization and date-range approximation engine of the        *)
(* Copilot metrics dashboard: MetricsCalculator (time saved, normalizer),  *)
(* filterDataByDateRange (window rescaler) and getMetricsTimeSeries        *)
(* (time-series synthesizer).                                              *)
(*                                                                         *)
(* Calendar dates ('yyyy-MM-dd' strings) are day numbers; instants are     *)
(* hours since day 0 (the code works in milliseconds; the unit does not    *)
(* change any quotient the code forms).  The empty date string is NoDate.  *)
(***************************************************************************)
EXTENDS Integers, Sequences, FiniteSets, TLC

VARIABLES
  metrics, curRange, filtered, fpc,          \* window rescaler
  tsArgs, tsOut, tpc,                        \* time saved
  seriesReq, adjusted, seriesMetrics, trend, seriesErr, spc,
                                             \* time-series synthesizer
  payload, seconds, normOut, normAgain, npc,  \* normalizer
  cache, now, svcCall, svcPc, svcResult, svcErr, svcRequests, svcCalls,
  hits, produced,                         \* metrics service
  comparisonData, highestValueTeam,          \* comparison page
  clientCall, clientRange, rawResponse, clientNow, clientOut, clientErr, cpc,
                                             \* API client
  organizationMetrics, teamMetricsBySlug, filteredOrganizationMetrics,
  filteredTeamMetrics, loading, providerError, currentDateRange, inFlight, refreshing,
  started, pageDateRange                     \* metrics provider, dashboard

vars == <<metrics, curRange, filtered, fpc, tsArgs, tsOut, tpc,
          seriesReq, adjusted, seriesMetrics, trend, seriesErr, spc,
          payload, seconds, normOut, normAgain, npc,
          cache, now, svcCall, svcPc, svcResult, svcErr, svcRequests, svcCalls,
          hits, produced, comparisonData, highestValueTeam,
          clientCall, clientRange, rawResponse, clientNow, clientOut, clientErr, cpc,
          organizationMetrics, teamMetricsBySlug, filteredOrganizationMetrics,
          filteredTeamMetrics, loading, providerError, currentDateRange, inFlight,
          refreshing, started, pageDateRange>>

filterVars == <<metrics, curRange, filtered, fpc>>
timeVars == <<tsArgs, tsOut, tpc>>
seriesVars == <<seriesReq, adjusted, seriesMetrics, trend, seriesErr, spc>>
normVars == <<payload, seconds, normOut, normAgain, npc>>
serviceVars == <<cache, now, svcCall, svcPc, svcResult, svcErr, svcRequests,
                 svcCalls, hits, produced, comparisonData, highestValueTeam>>
clientVars == <<clientCall, clientRange, rawResponse, clientNow, clientOut,
                clientErr, cpc>>
providerVars == <<organizationMetrics, teamMetricsBySlug, filteredOrganizationMetrics,
                  filteredTeamMetrics, loading, providerError, currentDateRange, inFlight,
                  refreshing, started, pageDateRange>>

----------------------------------------------------------------------------
(* Bounds *)

MaxDay == 3
MaxCount == 2
MaxRepos == 1
MaxAcceptance == 20
MaxSeconds == 5
MaxElems == 2
MaxPeriods == 4
MaxPeriodDays == 3
MaxTotal == 280
Today == 40
MaxTeams == 2
MaxCalls == 2
MaxNow == 31

(* Program constants *)

HoursPerDay == 24
maxHistoricalDays == 28
DefaultSecondsPerSuggestion == 55
\* CacheService's default time-to-live, in minutes
defaultTtl == 30
\* getMetricsTrend's default periods and periodDays
defaultPeriods == 10
defaultPeriodDays == 7

----------------------------------------------------------------------------
(* JavaScript values.  t is the kind of value: "undefined", "null",       *)
(* "bool" (n is 0 or 1), "num" (the finite rational n / d, d > 0), "nan",  *)
(* "inf", "str" (s, the characters), "obj" (f, the own properties) or      *)
(* "arr" (a, the elements).                                                *)

JsValue(t, n, d, s, f, a) == [t |-> t, n |-> n, d |-> d, s |-> s, f |-> f, a |-> a]

RECURSIVE GCD(_, _)
GCD(a, b) == IF b = 0 THEN a ELSE GCD(b, a % b)

Abs(a) == IF a < 0 THEN -a ELSE a

Num(n) == JsValue("num", n, 1, << >>, << >>, << >>)

\* the number n / d (d > 0), in lowest terms
Rat(n, d) ==
  LET g == GCD(Abs(n), d)
  IN JsValue("num", n \div g, d \div g, << >>, << >>, << >>)

NaN == JsValue("nan", 0, 1, << >>, << >>, << >>)
Infinity == JsValue("inf", 1, 1, << >>, << >>, << >>)
Undefined == JsValue("undefined", 0, 1, << >>, << >>, << >>)
Null == JsValue("null", 0, 1, << >>, << >>, << >>)
Bool(b) == JsValue("bool", IF b THEN 1 ELSE 0, 1, << >>, << >>, << >>)
Str(chars) == JsValue("str", 0, 1, chars, << >>, << >>)
Obj(props) == JsValue("obj", 0, 1, << >>, props, << >>)
Arr(elems) == JsValue("arr", 0, 1, << >>, << >>, elems)

IsFinite(x) == x.t = "num"

\* a / b for integers a >= 0, b >= 0, with JavaScript's results for b = 0
JsDiv(a, b) ==
  IF b # 0 THEN Rat(a, b)
  ELSE IF a = 0 THEN NaN ELSE Infinity

\* x * k for a JavaScript number x and an integer k > 0
JsTimes(x, k) == IF x.t = "num" THEN Rat(x.n * k, x.d) ELSE x

\* x * (a / b) for a JavaScript number x and integers a >= 0, b > 0
JsScale(x, a, b) == IF x.t = "num" THEN Rat(x.n * a, x.d * b) ELSE x

\* truthiness of a JavaScript value
JsTruthy(x) ==
  CASE x.t \in {"undefined", "null", "nan"} -> FALSE
    [] x.t \in {"num", "bool"} -> x.n # 0
    [] x.t = "str" -> x.s # << >>
    [] OTHER -> TRUE

Max(a, b) == IF a >= b THEN a ELSE b
Min(a, b) == IF a <= b THEN a ELSE b

\* Math.round(n / d) for d > 0: nearest integer, halves towards +Infinity
MathRound(n, d) == (2 * n + d) \div (2 * d)

----------------------------------------------------------------------------
(* MetricsCalculator.calculateTimeSaved: an integer divided by 100.        *)

\* variant: truncation in place of Math.round
TimeSavedFloor(acceptanceCount, secondsPerSuggestion) ==
  Rat((acceptanceCount * secondsPerSuggestion) \div 36, 100)

calculateTimeSaved(acceptanceCount, secondsPerSuggestion) ==
  Rat(MathRound(acceptanceCount * secondsPerSuggestion, 36), 100)

----------------------------------------------------------------------------
(* Dates *)

NoDate == -1

\* parseISO('yyyy-MM-dd').getTime(): local midnight of the date
parseISO(date) == date * HoursPerDay

\* format(instant, 'yyyy-MM-dd'): the calendar date the instant falls on
format(instant) == instant \div HoursPerDay

----------------------------------------------------------------------------
(* CopilotMetrics snapshots handed to the window rescaler.  Counts are     *)
(* non-negative integers, percentages and averages JavaScript numbers.     *)

NoMetrics == [null |-> TRUE]
IsNull(m) == DOMAIN m = {"null"}

Percentage(part, whole) == IF whole > 0 THEN Rat(part * 100, whole) ELSE Num(0)
Average(total, users) == IF users > 0 THEN Rat(total, users) ELSE Num(0)

RepositoryEntry(i, c, s, a) ==
  [repositoryId |-> i, repositoryName |-> "repo",
   completionsCount |-> c, suggestionsCount |-> s, acceptanceCount |-> a,
   acceptancePercentage |-> Percentage(a, s)]

FileExtensionEntry(c, s, a) ==
  [completionsCount |-> c, suggestionsCount |-> s, acceptanceCount |-> a,
   acceptancePercentage |-> Percentage(a, s)]

\* a snapshot as getOrganizationMetrics returns it: k repositories and k
\* file extensions, window [startDate, endDate]
Snapshot(c, s, a, u, k, startDate, endDate) ==
  [totalCompletionsCount |-> c,
   totalSuggestionCount |-> s,
   totalAcceptanceCount |-> a,
   totalAcceptancePercentage |-> Percentage(a, s),
   totalActiveUsers |-> u,
   avgCompletionsPerUser |-> Average(c, u),
   avgSuggestionsPerUser |-> Average(s, u),
   avgAcceptancePercentage |-> Percentage(a, s),
   estimatedTimeSaved |-> calculateTimeSaved(a, DefaultSecondsPerSuggestion),
   repositoryMetrics |-> [i \in 1..k |-> RepositoryEntry(i, c, s, a)],
   fileExtensionMetrics |-> [e \in 1..k |-> FileExtensionEntry(c, s, a)],
   dateRange |-> [startDate |-> startDate, endDate |-> endDate]]

Days == 0..MaxDay
Counts == 0..MaxCount

\* covered windows: well-formed, or absent (both date strings empty)
CoveredWindows ==
  {w \in (Days \X Days) : w[1] <= w[2]} \cup {<<NoDate, NoDate>>}

Snapshots ==
  {Snapshot(c, s, a, u, k, w[1], w[2]) :
     c \in Counts, s \in Counts, a \in Counts, u \in {0, MaxCount},
     k \in 0..MaxRepos, w \in CoveredWindows}

----------------------------------------------------------------------------
(* filterDataByDateRange (MetricsContext.tsx) *)

hasFullData(m) ==
  m.dateRange.startDate # NoDate /\ m.dateRange.endDate # NoDate

\* variant: the earlier of the two starts
effectiveStartDateMin(filterStart, fullRangeStart) == Min(filterStart, fullRangeStart)

effectiveStartDate(filterStart, fullRangeStart) == Max(filterStart, fullRangeStart)

effectiveEndDate(filterEnd, fullRangeEnd) == Min(filterEnd, fullRangeEnd)

fullRangeDays(fullRangeStart, fullRangeEnd) ==
  Max(1, MathRound(fullRangeEnd - fullRangeStart, HoursPerDay))

\* variant: both end dates counted
filteredDaysInclusive(effStart, effEnd) ==
  Max(1, MathRound(effEnd - effStart, HoursPerDay) + 1)

filteredDays(effStart, effEnd) ==
  Max(1, MathRound(effEnd - effStart, HoursPerDay))

\* variant: the ratio inverted
scaleInverted(count, fDays, fullDays) == MathRound(count * fullDays, fDays)

\* Math.round(count * daysRatio), daysRatio = fDays / fullDays
scale(count, fDays, fullDays) == MathRound(count * fDays, fullDays)

\* variant: the all-zero snapshot keeping the snapshot's own window
noOverlapEffective(m, startDate, endDate) ==
  [totalCompletionsCount |-> 0,
   totalSuggestionCount |-> 0,
   totalAcceptanceCount |-> 0,
   totalAcceptancePercentage |-> Num(0),
   totalActiveUsers |-> 0,
   avgCompletionsPerUser |-> Num(0),
   avgSuggestionsPerUser |-> Num(0),
   avgAcceptancePercentage |-> Num(0),
   estimatedTimeSaved |-> Num(0),
   repositoryMetrics |-> << >>,
   fileExtensionMetrics |-> << >>,
   dateRange |-> m.dateRange]

\* the all-zero snapshot returned when the windows do not overlap
noOverlap(m, startDate, endDate) ==
  [totalCompletionsCount |-> 0,
   totalSuggestionCount |-> 0,
   totalAcceptanceCount |-> 0,
   totalAcceptancePercentage |-> Num(0),
   totalActiveUsers |-> 0,
   avgCompletionsPerUser |-> Num(0),
   avgSuggestionsPerUser |-> Num(0),
   avgAcceptancePercentage |-> Num(0),
   estimatedTimeSaved |-> Num(0),
   repositoryMetrics |-> << >>,
   fileExtensionMetrics |-> << >>,
   dateRange |-> [startDate |-> startDate, endDate |-> endDate]]

\* one repository or file-extension entry, scaled (the spread keeps the
\* other fields of the entry)
scaleEntry(entry, fDays, fullDays) ==
  [entry EXCEPT
     !.completionsCount = scale(entry.completionsCount, fDays, fullDays),
     !.suggestionsCount = scale(entry.suggestionsCount, fDays, fullDays),
     !.acceptanceCount = scale(entry.acceptanceCount, fDays, fullDays),
     !.acceptancePercentage =
        IF entry.suggestionsCount > 0
        THEN JsTimes(JsDiv(scale(entry.acceptanceCount, fDays, fullDays),
                           scale(entry.suggestionsCount, fDays, fullDays)), 100)
        ELSE entry.acceptancePercentage]

\* the proportionally scaled snapshot for an overlap [effStart, effEnd]
scaled(m, effStart, effEnd, fDays, fullDays) ==
  [totalCompletionsCount |-> scale(m.totalCompletionsCount, fDays, fullDays),
   totalSuggestionCount |-> scale(m.totalSuggestionCount, fDays, fullDays),
   totalAcceptanceCount |-> scale(m.totalAcceptanceCount, fDays, fullDays),
   totalAcceptancePercentage |->
     IF m.totalSuggestionCount > 0
     THEN JsTimes(JsDiv(scale(m.totalAcceptanceCount, fDays, fullDays),
                        scale(m.totalSuggestionCount, fDays, fullDays)), 100)
     ELSE m.totalAcceptancePercentage,
   totalActiveUsers |-> scale(m.totalActiveUsers, fDays, fullDays),
   avgCompletionsPerUser |->
     IF m.totalActiveUsers > 0
     THEN JsDiv(scale(m.totalCompletionsCount, fDays, fullDays),
                scale(m.totalActiveUsers, fDays, fullDays))
     ELSE m.avgCompletionsPerUser,
   avgSuggestionsPerUser |->
     IF m.totalActiveUsers > 0
     THEN JsDiv(scale(m.totalSuggestionCount, fDays, fullDays),
                scale(m.totalActiveUsers, fDays, fullDays))
     ELSE m.avgSuggestionsPerUser,
   avgAcceptancePercentage |-> m.avgAcceptancePercentage,
   estimatedTimeSaved |->
     IF JsTruthy(m.estimatedTimeSaved)
     THEN JsScale(m.estimatedTimeSaved, fDays, fullDays)
     ELSE Num(0),
   repositoryMetrics |->
     [i \in DOMAIN m.repositoryMetrics |->
        scaleEntry(m.repositoryMetrics[i], fDays, fullDays)],
   fileExtensionMetrics |->
     [e \in DOMAIN m.fileExtensionMetrics |->
        scaleEntry(m.fileExtensionMetrics[e], fDays, fullDays)],
   dateRange |-> [startDate |-> format(effStart), endDate |-> format(effEnd)]]

\* The closing pass over the entries of the result (lines 185-189) replaces
\* null and undefined values only; no field built above is either.
filterDataByDateRange(m, startDate, endDate) ==
  IF IsNull(m) THEN NoMetrics
  ELSE IF ~hasFullData(m) THEN m
  ELSE
    LET fullRangeStart == parseISO(m.dateRange.startDate)
        fullRangeEnd == parseISO(m.dateRange.endDate)
        filterStart == parseISO(startDate)
        filterEnd == parseISO(endDate)
        effStart == effectiveStartDate(filterStart, fullRangeStart)
        effEnd == effectiveEndDate(filterEnd, fullRangeEnd)
    IN IF effEnd < effStart
       THEN noOverlap(m, startDate, endDate)
       ELSE scaled(m, effStart, effEnd,
                   filteredDays(effStart, effEnd),
                   fullRangeDays(fullRangeStart, fullRangeEnd))

----------------------------------------------------------------------------
(* Specification of the window rescaler: a snapshot is fixed, and the      *)
(* rescaler is applied to it for one requested window after another.       *)

FilterIdle ==
  /\ metrics = NoMetrics
  /\ curRange = [startDate |-> NoDate, endDate |-> NoDate]
  /\ filtered = NoMetrics
  /\ fpc = "idle"

TimeIdle ==
  /\ tsArgs = <<0, 0>>
  /\ tsOut = Num(0)
  /\ tpc = "idle"

NoTeam == "undefined"
NoTrend == [metric |-> "none", points |-> << >>, changePercentage |-> Num(0)]
NoError == [kind |-> "none", scope |-> "none", name |-> "none", status |-> "none"]

SeriesIdle ==
  /\ seriesReq = [metric |-> "none", teamSlug |-> NoTeam, periods |-> 0, periodDays |-> 0]
  /\ adjusted = <<0, 0>>
  /\ seriesMetrics = NoMetrics
  /\ trend = NoTrend
  /\ seriesErr = NoError
  /\ spc = "idle"

NotCalled == [threw |-> FALSE, value |-> Undefined]

NormIdle ==
  /\ payload = Undefined
  /\ seconds = DefaultSecondsPerSuggestion
  /\ normOut = NotCalled
  /\ normAgain = NotCalled
  /\ npc = "idle"

\* JavaScript's null where a result object is expected
NullResult == [null |-> TRUE]
NoCall == [op |-> "none"]
NoServiceError ==
  [kind |-> "none", org |-> "none", teamSlug |-> << >>, status |-> "none",
   message |-> "none"]

ServiceIdle ==
  /\ cache = {}
  /\ now = 0
  /\ svcCall = NoCall
  /\ svcPc = "idle"
  /\ svcResult = NullResult
  /\ svcErr = NoServiceError
  /\ svcRequests = 0
  /\ svcCalls = 0
  /\ hits = {}
  /\ produced = {}
  /\ comparisonData = NullResult
  /\ highestValueTeam = NullResult

NoClientCall ==
  [op |-> "none", teamSlug |-> << >>, startDate |-> NoDate, endDate |-> NoDate]
NoValidatedRange == [since |-> NoDate, until |-> NoDate]

ClientIdle ==
  /\ clientCall = NoClientCall
  /\ clientRange = NoValidatedRange
  /\ rawResponse = Undefined
  /\ clientNow = 0
  /\ clientOut = NotCalled
  /\ clientErr = "none"
  /\ cpc = "idle"

ProviderSlugs == {"a", "b"}
NoRefresh ==
  [active |-> FALSE, dateRange |-> [startDate |-> NoDate, endDate |-> NoDate],
   organizationMetrics |-> NoMetrics,
   teamMetrics |-> [slug \in ProviderSlugs |-> NoMetrics]]

\* MetricsContext.tsx lines 33-48: the state of a provider just mounted
ProviderIdle ==
  /\ organizationMetrics = NoMetrics
  /\ teamMetricsBySlug = [slug \in ProviderSlugs |-> NoMetrics]
  /\ filteredOrganizationMetrics = NoMetrics
  /\ filteredTeamMetrics = [slug \in ProviderSlugs |-> NoMetrics]
  /\ loading = TRUE
  /\ providerError = "null"
  /\ currentDateRange = [startDate |-> Today - 7, endDate |-> Today]
  /\ inFlight = {}
  /\ refreshing = NoRefresh
  /\ started = 0
  /\ pageDateRange = [startDate |-> Today - 7, endDate |-> Today]

InitFilter ==
  /\ metrics \in Snapshots
  /\ curRange = [startDate |-> NoDate, endDate |-> NoDate]
  /\ filtered = NoMetrics
  /\ fpc = "idle"
  /\ TimeIdle
  /\ SeriesIdle
  /\ NormIdle
  /\ ServiceIdle
  /\ ClientIdle
  /\ ProviderIdle

CallFilter(startDate, endDate) ==
  /\ curRange' = [startDate |-> startDate, endDate |-> endDate]
  /\ filtered' = filterDataByDateRange(metrics, startDate, endDate)
  /\ fpc' = "done"
  /\ UNCHANGED <<metrics, timeVars, seriesVars, normVars, serviceVars, clientVars, providerVars>>

NextFilter == \E startDate \in Days, endDate \in Days : CallFilter(startDate, endDate)

SpecFilter == InitFilter /\ [][NextFilter]_vars

----------------------------------------------------------------------------
(* Specification of the time-saved formula *)

AcceptanceCounts == 0..MaxAcceptance \cup {200, 1000}
SecondsValues == 1..MaxSeconds \cup {DefaultSecondsPerSuggestion}

InitTime ==
  /\ FilterIdle
  /\ TimeIdle
  /\ SeriesIdle
  /\ NormIdle
  /\ ServiceIdle
  /\ ClientIdle
  /\ ProviderIdle

CallTimeSaved(acceptanceCount, secondsPerSuggestion) ==
  /\ tsArgs' = <<acceptanceCount, secondsPerSuggestion>>
  /\ tsOut' = calculateTimeSaved(acceptanceCount, secondsPerSuggestion)
  /\ tpc' = "done"
  /\ UNCHANGED <<filterVars, seriesVars, normVars, serviceVars, clientVars, providerVars>>

NextTime ==
  \E a \in AcceptanceCounts, s \in SecondsValues : CallTimeSaved(a, s)

SpecTime == InitTime /\ [][NextTime]_vars

----------------------------------------------------------------------------
(* Properties of the window rescaler *)

coveredWindow == metrics.dateRange

WellFormed(range) == range.startDate <= range.endDate

\* the calendar dates a requested window shares with the covered window
OverlapDates(range) ==
  {d \in Days : /\ range.startDate <= d /\ d <= range.endDate
                /\ coveredWindow.startDate <= d /\ d <= coveredWindow.endDate}

EntirelyOutside(range) ==
  /\ WellFormed(range)
  /\ \/ range.endDate < coveredWindow.startDate
     \/ range.startDate > coveredWindow.endDate

EntryCounts(entry) ==
  <<entry.completionsCount, entry.suggestionsCount, entry.acceptanceCount>>

TotalCounts(m) ==
  <<m.totalCompletionsCount, m.totalSuggestionCount, m.totalAcceptanceCount,
    m.totalActiveUsers>>

AllCountsZero(m) ==
  /\ TotalCounts(m) = <<0, 0, 0, 0>>
  /\ m.repositoryMetrics = << >>
  /\ m.fileExtensionMetrics = << >>

\* every count field of x is related by R(_, _) to the same field of y
CountsRelated(x, y, R(_, _)) ==
  /\ \A i \in 1..4 : R(TotalCounts(x)[i], TotalCounts(y)[i])
  /\ DOMAIN x.repositoryMetrics = DOMAIN y.repositoryMetrics
  /\ \A r \in DOMAIN x.repositoryMetrics : \A i \in 1..3 :
        R(EntryCounts(x.repositoryMetrics[r])[i], EntryCounts(y.repositoryMetrics[r])[i])
  /\ DOMAIN x.fileExtensionMetrics = DOMAIN y.fileExtensionMetrics
  /\ \A e \in DOMAIN x.fileExtensionMetrics : \A i \in 1..3 :
        R(EntryCounts(x.fileExtensionMetrics[e])[i], EntryCounts(y.fileExtensionMetrics[e])[i])

WithinOne(a, b) == a - b <= 1 /\ b - a <= 1
AtMost(a, b) == a <= b

Rescaled == fpc = "done" /\ hasFullData(metrics)

\* C1: a requested window lying entirely before or entirely after the
\* covered window yields a snapshot whose counts are all 0, whose
\* collections are empty and whose dateRange is the requested window.
RescalerNoOverlap ==
  (Rescaled /\ EntirelyOutside(curRange)) =>
     /\ AllCountsZero(filtered)
     /\ filtered.dateRange = curRange

RescalerNoOverlapWitness ==
  /\ Rescaled /\ EntirelyOutside(curRange)
  /\ curRange.startDate > coveredWindow.endDate
  /\ metrics.totalCompletionsCount > 0
  /\ metrics.repositoryMetrics # << >>
  /\ AllCountsZero(filtered)
  /\ filtered.dateRange = curRange
  /\ filtered.dateRange # coveredWindow

\* C2: when the requested window equals the covered window, every count
\* field of the result is within 1 of the original count.
RescalerIdentity ==
  (Rescaled /\ curRange = coveredWindow) =>
     CountsRelated(filtered, metrics, WithinOne)

RescalerIdentityWitness ==
  /\ Rescaled /\ curRange = coveredWindow
  /\ coveredWindow.startDate < coveredWindow.endDate
  /\ TotalCounts(metrics) = <<MaxCount, MaxCount, MaxCount, MaxCount>>
  /\ metrics.repositoryMetrics # << >>
  /\ CountsRelated(filtered, metrics, WithinOne)

\* C3: for a fixed snapshot, if the overlap of requested window A with the
\* covered window is contained in the overlap of requested window B, every
\* scaled count for A is at most the same count for B.
RescalerMonotonic ==
  Rescaled =>
    \A bStart \in Days, bEnd \in Days :
      LET B == [startDate |-> bStart, endDate |-> bEnd]
      IN OverlapDates(curRange) \subseteq OverlapDates(B) =>
           LET forB == filterDataByDateRange(metrics, bStart, bEnd)
           IN /\ \A i \in 1..4 : TotalCounts(filtered)[i] <= TotalCounts(forB)[i]
              /\ \A r \in DOMAIN filtered.repositoryMetrics : \A i \in 1..3 :
                    EntryCounts(filtered.repositoryMetrics[r])[i]
                      <= EntryCounts(forB.repositoryMetrics[r])[i]
              /\ \A e \in DOMAIN filtered.fileExtensionMetrics : \A i \in 1..3 :
                    EntryCounts(filtered.fileExtensionMetrics[e])[i]
                      <= EntryCounts(forB.fileExtensionMetrics[e])[i]

RescalerMonotonicWitness ==
  /\ Rescaled
  /\ OverlapDates(curRange) # {}
  /\ metrics.repositoryMetrics # << >>
  /\ \E bStart \in Days, bEnd \in Days :
       LET B == [startDate |-> bStart, endDate |-> bEnd]
           forB == filterDataByDateRange(metrics, bStart, bEnd)
       IN /\ OverlapDates(curRange) \subseteq OverlapDates(B)
          /\ OverlapDates(curRange) # OverlapDates(B)
          /\ filtered.totalCompletionsCount < forB.totalCompletionsCount
          /\ filtered.repositoryMetrics[1].completionsCount
               < forB.repositoryMetrics[1].completionsCount

\* C4: whenever the requested window intersects the covered window, the
\* dateRange of the result starts at the later of the two start dates and
\* ends at the earlier of the two end dates.
RescalerIntersection ==
  (Rescaled /\ OverlapDates(curRange) # {}) =>
     filtered.dateRange =
       [startDate |-> Max(curRange.startDate, coveredWindow.startDate),
        endDate |-> Min(curRange.endDate, coveredWindow.endDate)]

RescalerIntersectionWitness ==
  /\ Rescaled
  /\ curRange.startDate < coveredWindow.startDate
  /\ coveredWindow.startDate < curRange.endDate
  /\ curRange.endDate < coveredWindow.endDate
  /\ filtered.dateRange =
       [startDate |-> coveredWindow.startDate, endDate |-> curRange.endDate]

----------------------------------------------------------------------------
(* Properties of the time-saved formula *)

\* C9: 100 * calculateTimeSaved(a, s) is a * s / 36 rounded to the nearest
\* integer (halves upwards); (1000, 55) gives 15.28 and (200, 55) gives 3.06.
TimeSavedFormula ==
  tpc = "done" =>
    LET a == tsArgs[1]
        s == tsArgs[2]
        r == tsOut.n * (100 \div tsOut.d)   \* 100 * result
    IN /\ tsOut.t = "num" /\ 100 % tsOut.d = 0
       /\ 36 * r - a * s <= 18
       /\ a * s - 36 * r < 18
       /\ (a = 1000 /\ s = 55) => r = 1528
       /\ (a = 200 /\ s = 55) => r = 306

TimeSavedFormulaWitness ==
  /\ tpc = "done"
  /\ tsArgs = <<1000, 55>>
  /\ tsOut = Rat(1528, 100)

----------------------------------------------------------------------------
(* CopilotApiClient.getMetricsTimeSeries (copilot-api-client.ts) *)

Org == "acme"

subDays(instant, n) == instant - n * HoursPerDay

\* differenceInDays(later, earlier): full days between the instants,
\* truncated towards zero
differenceInDays(later, earlier) ==
  IF later >= earlier
  THEN (later - earlier) \div HoursPerDay
  ELSE -((earlier - later) \div HoursPerDay)

\* Math.ceil(a / b) and Math.floor(a / b) for b > 0
MathCeil(a, b) == -((-a) \div b)
MathFloor(a, b) == a \div b

\* <<adjustedPeriods, adjustedPeriodDays>>
adjustPeriods(periods, periodDays) ==
  IF periods * periodDays > maxHistoricalDays
  THEN IF MathCeil(maxHistoricalDays, periods) > 0
       THEN <<periods, MathFloor(maxHistoricalDays, periods)>>
       ELSE LET fewer == MathFloor(maxHistoricalDays, periodDays)
            IN IF fewer = 0 THEN <<1, maxHistoricalDays>>
               ELSE <<fewer, periodDays>>
  ELSE <<periods, periodDays>>

\* the snapshot's value for the selected metric
metricsValue(m, metric) ==
  CASE metric = "completions" -> Num(m.totalCompletionsCount)
    [] metric = "acceptanceRate" -> m.totalAcceptancePercentage
    [] metric = "activeUsers" -> Num(m.totalActiveUsers)
    [] metric = "timeSaved" ->
         IF JsTruthy(m.estimatedTimeSaved) THEN m.estimatedTimeSaved ELSE Num(0)
    [] OTHER -> Num(m.totalCompletionsCount)

\* Math.round(value * (overlapDays / dataDays)) for a finite value
scaleValue(value, overlapDays, dataDays) ==
  Num(MathRound(value.n * overlapDays, value.d * dataDays))

\* the point of period i (0 = most recent), endDate being the current instant
periodPoint(m, metric, i, periodDays, endDate) ==
  LET dataStartDate == IF m.dateRange.startDate # NoDate
                       THEN parseISO(m.dateRange.startDate)
                       ELSE subDays(endDate, maxHistoricalDays)
      dataEndDate == IF m.dateRange.endDate # NoDate
                     THEN parseISO(m.dateRange.endDate)
                     ELSE endDate
      dataDays == Max(1, differenceInDays(dataEndDate, dataStartDate))
      periodEndDate == subDays(endDate, i * periodDays)
      periodStartDate == subDays(periodEndDate, periodDays - 1)
      overlapStart == Max(periodStartDate, dataStartDate)
      overlapEnd == Min(periodEndDate, dataEndDate)
      overlapDays == Max(0, differenceInDays(overlapEnd, overlapStart))
      periodValue ==
        IF overlapEnd >= overlapStart
        THEN IF metric = "acceptanceRate"
             THEN metricsValue(m, metric)
             ELSE scaleValue(metricsValue(m, metric), overlapDays, dataDays)
        ELSE Num(0)
  IN [date |-> format(periodEndDate), value |-> periodValue]

\* new Date(date).getTime() of a 'yyyy-MM-dd' string
dateTime(date) == date * HoursPerDay

\* to insert a point into a list sorted by date, behind the points that do
\* not compare greater (the sort is stable)
RECURSIVE insertByDate(_, _)
insertByDate(sorted, p) ==
  IF sorted = << >> THEN <<p>>
  ELSE IF dateTime(Head(sorted).date) - dateTime(p.date) <= 0
       THEN <<Head(sorted)>> \o insertByDate(Tail(sorted), p)
       ELSE <<p>> \o sorted

RECURSIVE sortPoints(_)

\* variant: the points left in generation order
unsortedPoints(points) == points

\* points.sort((a, b) => new Date(a.date).getTime() - new Date(b.date).getTime())
sortPoints(points) ==
  IF points = << >> THEN << >>
  ELSE insertByDate(sortPoints(SubSeq(points, 1, Len(points) - 1)),
                    points[Len(points)])

\* value || 0
valueOrZero(x) == IF JsTruthy(x) THEN x ELSE Num(0)

\* ((lastValue - firstValue) / firstValue) * 100 for finite values
changeRatio(firstValue, lastValue) ==
  LET num == (lastValue.n * firstValue.d - firstValue.n * lastValue.d) * 100
      den == lastValue.d * firstValue.n
  IN IF den = 0
     THEN IF num = 0 THEN NaN ELSE Infinity
     ELSE IF den > 0 THEN Rat(num, den) ELSE Rat(-num, -den)

\* variant: no guard for a first value of 0
changeUnguarded(firstValue, lastValue) == changeRatio(firstValue, lastValue)

changePercentageOf(firstValue, lastValue) ==
  IF firstValue.n = 0 THEN Num(0) ELSE changeRatio(firstValue, lastValue)

\* the trend built from the fetched snapshot m at instant endDate
buildTrend(m, metric, adjustedPeriods, adjustedPeriodDays, endDate) ==
  LET points == [k \in 1..adjustedPeriods |->
                   periodPoint(m, metric, k - 1, adjustedPeriodDays, endDate)]
      sortedPoints == sortPoints(points)
      firstValue == IF sortedPoints = << >> THEN Num(0)
                    ELSE valueOrZero(sortedPoints[1].value)
      lastValue == IF sortedPoints = << >> THEN Num(0)
                   ELSE valueOrZero(sortedPoints[Len(sortedPoints)].value)
  IN [metric |-> metric,
      points |-> sortedPoints,
      changePercentage |-> changePercentageOf(firstValue, lastValue)]

----------------------------------------------------------------------------
(* Specification of the synthesizer: one call, suspended at the snapshot   *)
(* fetch.  The fetched snapshot carries the window getOrganizationMetrics  *)
(* and getTeamMetrics attach when called without dates:                    *)
(* [today - maxHistoricalDays, today].                                     *)

Metrics == {"completions", "acceptanceRate", "activeUsers", "timeSaved", "other"}
TeamSlugs == {NoTeam, "alpha", "teams"}
PeriodsValues == 1..MaxPeriods \cup {10, maxHistoricalDays + 1}
PeriodDaysValues == 1..MaxPeriodDays \cup {7, 8, maxHistoricalDays + 1}
HoursOfDay == {0, 12}
UpstreamStatuses == {"404", "500"}

FetchedSnapshots ==
  {Snapshot(c, MaxTotal, a, u, 0, Today - maxHistoricalDays, Today) :
     c \in {0, MaxTotal}, a \in {0, MaxTotal \div 2}, u \in {0, MaxCount}}

InitSeries ==
  /\ FilterIdle
  /\ TimeIdle
  /\ SeriesIdle
  /\ NormIdle
  /\ ServiceIdle
  /\ ClientIdle
  /\ ProviderIdle

\* lines 326-370: validation, adjustment, the fetch is issued
StartTimeSeries(metric, teamSlug, periods, periodDays) ==
  /\ spc = "idle"
  /\ seriesReq' = [metric |-> metric, teamSlug |-> teamSlug,
                    periods |-> periods, periodDays |-> periodDays]
  /\ IF teamSlug = "teams"
     THEN /\ spc' = "rejected"
          /\ seriesErr' = [kind |-> "Invalid team slug", scope |-> "team",
                           name |-> teamSlug, status |-> "none"]
          /\ UNCHANGED adjusted
     ELSE /\ spc' = "fetching"
          /\ adjusted' = adjustPeriods(periods, periodDays)
          /\ UNCHANGED seriesErr
  /\ UNCHANGED <<seriesMetrics, trend, filterVars, timeVars, normVars, serviceVars, clientVars, providerVars>>

\* lines 371-374: the snapshot fetch failed
FetchFails(status) ==
  /\ spc = "fetching"
  /\ spc' = "failed"
  /\ seriesErr' = [kind |-> "Failed to fetch metrics for",
                   scope |-> IF seriesReq.teamSlug # NoTeam THEN "team" ELSE "organization",
                   name |-> IF seriesReq.teamSlug # NoTeam THEN seriesReq.teamSlug ELSE Org,
                   status |-> "none"]
  /\ UNCHANGED <<seriesReq, adjusted, seriesMetrics, trend, filterVars, timeVars,
                 normVars, serviceVars, clientVars, providerVars>>

\* lines 376-457: the snapshot arrived; the trend is built and returned
FetchSucceeds(m, hour) ==
  /\ spc = "fetching"
  /\ spc' = "done"
  /\ seriesMetrics' = m
  /\ trend' = buildTrend(m, seriesReq.metric, adjusted[1], adjusted[2],
                         Today * HoursPerDay + hour)
  /\ UNCHANGED <<seriesReq, adjusted, seriesErr, filterVars, timeVars, normVars, serviceVars, clientVars, providerVars>>

NextSeries ==
  \/ \E metric \in Metrics, teamSlug \in TeamSlugs,
        periods \in PeriodsValues, periodDays \in PeriodDaysValues :
       StartTimeSeries(metric, teamSlug, periods, periodDays)
  \/ \E status \in UpstreamStatuses : FetchFails(status)
  \/ \E m \in FetchedSnapshots, hour \in HoursOfDay : FetchSucceeds(m, hour)

SpecSeries == InitSeries /\ [][NextSeries]_vars

----------------------------------------------------------------------------
(* Properties of the synthesizer *)

IsSortedByDate(points) ==
  \A i \in 1..Len(points), j \in 1..Len(points) :
     i < j => points[i].date <= points[j].date

\* C7: whenever the snapshot fetch succeeds, the trend has exactly
\* `periods` points (10 for periods = 10, periodDays = 7), in ascending
\* order of date.
SynthesizerOrderAndLength ==
  spc = "done" =>
    /\ Len(trend.points) = seriesReq.periods
    /\ IsSortedByDate(trend.points)
    /\ (seriesReq.periods = 10 /\ seriesReq.periodDays = 7) => Len(trend.points) = 10

SynthesizerOrderAndLengthWitness ==
  /\ spc = "done"
  /\ seriesReq.periods = 10 /\ seriesReq.periodDays = 7
  /\ Len(trend.points) = 10
  /\ \A i \in 1..9 : trend.points[i].date < trend.points[i + 1].date
  /\ trend.points[10].date = Today

FirstPoint == trend.points[1]
LastPoint == trend.points[Len(trend.points)]

\* C8: changePercentage is (last.value - first.value) / first.value * 100
\* over the chronologically first and last points, exactly 0 when the first
\* value is 0, and never NaN or Infinity.
SynthesizerChangePercentage ==
  spc = "done" =>
    /\ \A i \in 1..Len(trend.points) :
          FirstPoint.date <= trend.points[i].date /\ trend.points[i].date <= LastPoint.date
    /\ IsFinite(trend.changePercentage)
    /\ FirstPoint.value.n = 0 => trend.changePercentage = Num(0)
    /\ FirstPoint.value.n # 0 =>
          \* c = (l - f) / f * 100, cross-multiplied
          trend.changePercentage.n * FirstPoint.value.n * LastPoint.value.d
            = trend.changePercentage.d * 100
                * (LastPoint.value.n * FirstPoint.value.d
                     - FirstPoint.value.n * LastPoint.value.d)

SynthesizerZeroGuardWitness ==
  /\ spc = "done"
  /\ seriesReq.metric = "acceptanceRate"
  /\ Len(trend.points) > 1
  /\ FirstPoint.value.n = 0
  /\ trend.changePercentage = Num(0)

SynthesizerChangeWitness ==
  /\ spc = "done"
  /\ FirstPoint.value.n # 0
  /\ LastPoint.value.n # 0
  /\ trend.changePercentage.n < 0

----------------------------------------------------------------------------
(* MetricsCalculator.getNumberValue and enhanceWithDerivedMetrics          *)
(* (metrics-calculator.ts), over JavaScript values as JSON.parse yields    *)
(* them.                                                                   *)

IsNullish(v) == v.t \in {"undefined", "null"}

\* v[key] for a value v that is neither null nor undefined; the keys read
\* by the normalizer are own properties of plain objects only
Get(v, key) ==
  IF v.t = "obj" /\ key \in DOMAIN v.f THEN v.f[key] ELSE Undefined

\* a || b
Or(a, b) == IF JsTruthy(a) THEN a ELSE b

IsArray(v) == v.t = "arr"
TypeofNumber(v) == v.t \in {"num", "nan", "inf"}

Digits == {"0", "1", "2", "3", "4", "5", "6", "7", "8", "9"}

DigitValue(c) ==
  CASE c = "0" -> 0 [] c = "1" -> 1 [] c = "2" -> 2 [] c = "3" -> 3
    [] c = "4" -> 4 [] c = "5" -> 5 [] c = "6" -> 6 [] c = "7" -> 7
    [] c = "8" -> 8 [] c = "9" -> 9

\* the value of the longest prefix of digits of chars, read after acc
RECURSIVE parseDigits(_, _)
parseDigits(chars, acc) ==
  IF chars = << >> \/ Head(chars) \notin Digits THEN acc
  ELSE parseDigits(Tail(chars), 10 * acc + DigitValue(Head(chars)))

\* parseFloat of a string of digits and letters: the number its leading
\* digits spell, NaN when it does not start with a digit
parseFloat(chars) ==
  IF chars = << >> \/ Head(chars) \notin Digits THEN NaN
  ELSE Num(parseDigits(chars, 0))

\* variant: the camelCase key is not probed
getNumberValueSnakeOnly(obj, snakeCaseKey, camelCaseKey) ==
  IF ~JsTruthy(obj) THEN Num(0)
  ELSE LET value == IF Get(obj, snakeCaseKey) # Undefined
                    THEN Get(obj, snakeCaseKey)
                    ELSE Num(0)
       IN IF value.t = "str"
          THEN LET parsedValue == parseFloat(value.s)
               IN IF parsedValue.t = "nan" THEN Num(0) ELSE parsedValue
          ELSE IF TypeofNumber(value) THEN value ELSE Num(0)

getNumberValue(obj, snakeCaseKey, camelCaseKey) ==
  IF ~JsTruthy(obj) THEN Num(0)
  ELSE LET value == IF Get(obj, snakeCaseKey) # Undefined
                    THEN Get(obj, snakeCaseKey)
                    ELSE IF Get(obj, camelCaseKey) # Undefined
                         THEN Get(obj, camelCaseKey)
                         ELSE Num(0)
       IN IF value.t = "str"
          THEN LET parsedValue == parseFloat(value.s)
               IN IF parsedValue.t = "nan" THEN Num(0) ELSE parsedValue
          ELSE IF TypeofNumber(value) THEN value ELSE Num(0)

\* Object.keys(v) for v neither null nor undefined: the property names of
\* an object, the indices of an array or of a string
IndexKey(i) ==
  CASE i = 1 -> "0" [] i = 2 -> "1" [] i = 3 -> "2" [] OTHER -> "3"

ObjectKeys(v) ==
  CASE v.t = "obj" -> DOMAIN v.f
    [] v.t = "arr" -> {IndexKey(i) : i \in DOMAIN v.a}
    [] v.t = "str" -> {IndexKey(i) : i \in DOMAIN v.s}
    [] OTHER -> {}

\* v[key] for key in ObjectKeys(v)
Element(v, key) ==
  CASE v.t = "obj" -> v.f[key]
    [] v.t = "arr" -> v.a[CHOOSE i \in DOMAIN v.a : IndexKey(i) = key]
    [] v.t = "str" -> Str(<<v.s[CHOOSE i \in DOMAIN v.s : IndexKey(i) = key]>>)

\* lines 119-126: one element of repository_metrics
mapRepository(repo) ==
  Obj([repositoryId |-> Or(Get(repo, "repository_id"), Or(Get(repo, "repositoryId"), Str(<< >>))),
       repositoryName |-> Or(Get(repo, "repository_name"), Or(Get(repo, "repositoryName"), Str(<< >>))),
       completionsCount |-> Or(Get(repo, "completions_count"), Or(Get(repo, "completionsCount"), Num(0))),
       suggestionsCount |-> Or(Get(repo, "suggestions_count"), Or(Get(repo, "suggestionsCount"), Num(0))),
       acceptanceCount |-> Or(Get(repo, "acceptance_count"), Or(Get(repo, "acceptanceCount"), Num(0))),
       acceptancePercentage |-> Or(Get(repo, "acceptance_percentage"), Or(Get(repo, "acceptancePercentage"), Num(0)))])

\* lines 137-142: one value of the file-extension object
mapFileExtension(extData) ==
  Obj([completionsCount |-> Or(Get(extData, "completions_count"), Or(Get(extData, "completionsCount"), Num(0))),
       suggestionsCount |-> Or(Get(extData, "suggestions_count"), Or(Get(extData, "suggestionsCount"), Num(0))),
       acceptanceCount |-> Or(Get(extData, "acceptance_count"), Or(Get(extData, "acceptanceCount"), Num(0))),
       acceptancePercentage |-> Or(Get(extData, "acceptance_percentage"), Or(Get(extData, "acceptancePercentage"), Num(0)))])

EmptyDateRange == Obj([startDate |-> Str(<< >>), endDate |-> Str(<< >>)])

\* lines 73-88: the snapshot before any mapping
emptyEnhanced(secondsPerSuggestion) ==
  [totalCompletionsCount |-> Num(0),
   totalSuggestionCount |-> Num(0),
   totalAcceptanceCount |-> Num(0),
   totalAcceptancePercentage |-> Num(0),
   totalActiveUsers |-> Num(0),
   avgCompletionsPerUser |-> Num(0),
   avgSuggestionsPerUser |-> Num(0),
   avgAcceptancePercentage |-> Num(0),
   repositoryMetrics |-> Arr(<< >>),
   fileExtensionMetrics |-> Obj(<< >>),
   dateRange |-> EmptyDateRange,
   estimatedTimeSaved |-> calculateTimeSaved(0, secondsPerSuggestion)]

Returned(v) == [threw |-> FALSE, value |-> v]
Thrown == [threw |-> TRUE, value |-> Undefined]

\* the result of the call: a snapshot, or a TypeError raised by reading a
\* property of null or undefined
enhanceWithDerivedMetrics(metricsData, secondsPerSuggestion) ==
  IF IsNullish(metricsData)
  THEN Thrown                                  \* Object.keys(metricsData), line 69
  ELSE IF ~JsTruthy(metricsData)
  THEN Returned(Obj(emptyEnhanced(secondsPerSuggestion)))
  ELSE
    LET metricsObj == Or(Get(metricsData, "metrics"),
                         Or(Get(metricsData, "data"), metricsData))
        snakeRepos == Get(metricsObj, "repository_metrics")
        camelRepos == Get(metricsObj, "repositoryMetrics")
        fileExtMetrics == Or(Get(metricsObj, "file_extension_metrics"),
                             Or(Get(metricsObj, "fileExtensionMetrics"), Obj(<< >>)))
        totalAcceptanceCount ==
          getNumberValue(metricsObj, "total_acceptance_count", "totalAcceptanceCount")
    IN IF \/ IsArray(snakeRepos) /\ \E i \in DOMAIN snakeRepos.a : IsNullish(snakeRepos.a[i])
          \/ \E ext \in ObjectKeys(fileExtMetrics) : IsNullish(Element(fileExtMetrics, ext))
       THEN Thrown                             \* repo.repository_id, extData.completions_count
       ELSE Returned(Obj(
         [totalCompletionsCount |->
            getNumberValue(metricsObj, "total_completions_count", "totalCompletionsCount"),
          totalSuggestionCount |->
            getNumberValue(metricsObj, "total_suggestion_count", "totalSuggestionCount"),
          totalAcceptanceCount |-> totalAcceptanceCount,
          totalAcceptancePercentage |->
            getNumberValue(metricsObj, "total_acceptance_percentage", "totalAcceptancePercentage"),
          totalActiveUsers |->
            getNumberValue(metricsObj, "total_active_users", "totalActiveUsers"),
          avgCompletionsPerUser |->
            getNumberValue(metricsObj, "avg_completions_per_user", "avgCompletionsPerUser"),
          avgSuggestionsPerUser |->
            getNumberValue(metricsObj, "avg_suggestions_per_user", "avgSuggestionsPerUser"),
          avgAcceptancePercentage |->
            getNumberValue(metricsObj, "avg_acceptance_percentage", "avgAcceptancePercentage"),
          repositoryMetrics |->
            IF IsArray(snakeRepos)
            THEN Arr([i \in DOMAIN snakeRepos.a |-> mapRepository(snakeRepos.a[i])])
            ELSE IF IsArray(camelRepos) THEN camelRepos ELSE Arr(<< >>),
          fileExtensionMetrics |->
            Obj([ext \in ObjectKeys(fileExtMetrics) |->
                   mapFileExtension(Element(fileExtMetrics, ext))]),
          dateRange |->
            IF JsTruthy(Get(metricsObj, "dateRange"))
            THEN Get(metricsObj, "dateRange")
            ELSE IF JsTruthy(Get(metricsObj, "date_range"))
                 THEN Obj([startDate |-> Or(Get(Get(metricsObj, "date_range"), "start_date"), Str(<< >>)),
                           endDate |-> Or(Get(Get(metricsObj, "date_range"), "end_date"), Str(<< >>))])
                 ELSE EmptyDateRange,
          estimatedTimeSaved |->
            calculateTimeSaved(totalAcceptanceCount.n, secondsPerSuggestion)]))

----------------------------------------------------------------------------
(* Payloads handed to the normalizer *)

\* the object with the properties <<key, value>> of pairs whose value is
\* not undefined
PropsOf(pairs) ==
  [k \in {p[1] : p \in {q \in pairs : q[2] # Undefined}} |->
     (CHOOSE p \in pairs : p[1] = k)[2]]

TopFieldKeys ==
  <<<<"total_completions_count", "totalCompletionsCount">>,
    <<"total_suggestion_count", "totalSuggestionCount">>,
    <<"total_acceptance_count", "totalAcceptanceCount">>,
    <<"total_acceptance_percentage", "totalAcceptancePercentage">>,
    <<"total_active_users", "totalActiveUsers">>,
    <<"avg_completions_per_user", "avgCompletionsPerUser">>,
    <<"avg_suggestions_per_user", "avgSuggestionsPerUser">>,
    <<"avg_acceptance_percentage", "avgAcceptancePercentage">>>>

EntryFieldKeys ==
  <<<<"completions_count", "completionsCount">>,
    <<"suggestions_count", "suggestionsCount">>,
    <<"acceptance_count", "acceptanceCount">>,
    <<"acceptance_percentage", "acceptancePercentage">>>>

\* values of the right and of the wrong type; Undefined: the key is absent
Scalars ==
  {Undefined, Null, Num(0), Num(3), Str(<<"5", "0", "0">>), Str(<<"7", "a">>),
   Str(<<"a">>), Str(<< >>), Bool(TRUE), Obj(<< >>)}

EntryScalars == {Undefined, Null, Num(0), Num(3), Str(<<"5">>), Str(<<"a">>)}

\* one top-level field under its two spellings
FieldPayloads ==
  {Obj(PropsOf({<<TopFieldKeys[i][1], sv>>, <<TopFieldKeys[i][2], cv>>})) :
     i \in DOMAIN TopFieldKeys, sv \in Scalars, cv \in Scalars}

GoodEntry ==
  Obj([repository_id |-> Num(7), repository_name |-> Str(<<"a">>),
       completions_count |-> Num(100), suggestions_count |-> Num(8),
       acceptance_count |-> Num(4), acceptance_percentage |-> Num(50)])

\* elements of a collection: well-formed, with one field of any type under
\* either spelling, or not an object at all
Entries ==
  {GoodEntry, Null, Num(3), Str(<<"a">>)} \cup
  {Obj(PropsOf({<<EntryFieldKeys[i][1], sv>>, <<EntryFieldKeys[i][2], cv>>})) :
     i \in DOMAIN EntryFieldKeys, sv \in EntryScalars, cv \in EntryScalars}

\* collections of at most MaxElems elements, at most one of them other than
\* the well-formed one
EntryLists ==
  {[i \in 1..n |-> IF i = at THEN e ELSE GoodEntry] :
     n \in 0..MaxElems, at \in 1..MaxElems, e \in Entries}

ExtensionNames == <<"ts", "py", "go", "rs">>

RepositoryPayloads ==
  {Obj(PropsOf({<<key, v>>, <<"total_completions_count", Num(3)>>})) :
     key \in {"repository_metrics", "repositoryMetrics"},
     v \in {Arr(list) : list \in EntryLists} \cup {Num(3), Null, Obj(<< >>)}}

FileExtensionPayloads ==
  {Obj(PropsOf({<<key, v>>, <<"total_completions_count", Num(3)>>})) :
     key \in {"file_extension_metrics", "fileExtensionMetrics"},
     v \in {Obj([e \in {ExtensionNames[i] : i \in DOMAIN list} |->
                   list[CHOOSE i \in DOMAIN list : ExtensionNames[i] = e]]) :
              list \in EntryLists}
           \cup {Arr(<<GoodEntry>>), Str(<<"a", "b">>), Num(3), Null}}

DateValues ==
  {Undefined, Null, Str(<<"a">>),
   Obj([startDate |-> Str(<<"1">>), endDate |-> Str(<<"2">>)]),
   Obj([start_date |-> Str(<<"3">>), end_date |-> Str(<<"4">>)]),
   Obj([start_date |-> Str(<<"3">>)])}

DatePayloads ==
  {Obj(PropsOf({<<"dateRange", camel>>, <<"date_range", snake>>})) :
     camel \in DateValues, snake \in DateValues}

\* a complete payload in the snake spelling
SnakePayload ==
  Obj([total_completions_count |-> Num(500),
       total_suggestion_count |-> Num(400),
       total_acceptance_count |-> Num(200),
       total_acceptance_percentage |-> Num(50),
       total_active_users |-> Num(10),
       avg_completions_per_user |-> Num(50),
       avg_suggestions_per_user |-> Num(40),
       avg_acceptance_percentage |-> Num(50),
       repository_metrics |-> Arr(<<GoodEntry>>),
       file_extension_metrics |-> Obj([ts |-> GoodEntry]),
       date_range |-> Obj([start_date |-> Str(<<"3">>), end_date |-> Str(<<"4">>)])])

\* the payload of the end-to-end scenario
ScenarioPayload ==
  Obj([total_completions_count |-> Str(<<"5", "0", "0">>),
       totalAcceptanceCount |-> Num(200),
       repository_metrics |->
         Arr(<<Obj([repository_name |-> Str(<<"a">>),
                    completions_count |-> Num(100)])>>)])

Wrapped ==
  {Num(5), Str(<<"a">>), Null, Bool(TRUE), Arr(<< >>), SnakePayload, ScenarioPayload,
   Obj([metrics |-> SnakePayload]), Obj([data |-> SnakePayload])}

\* payloads under one or both wrapper keys
WrapperPayloads ==
  {Obj(PropsOf({<<"metrics", m>>, <<"data", d>>,
                <<"totalCompletionsCount", Num(3)>>})) :
     m \in Wrapped \cup {Undefined}, d \in Wrapped \cup {Undefined}}

PrimitivePayloads ==
  {Undefined, Null, Num(0), Num(5), Str(<< >>), Str(<<"a">>),
   Bool(FALSE), Bool(TRUE), Arr(<< >>), Arr(<<GoodEntry>>), Obj(<< >>)}

Payloads ==
  FieldPayloads \cup RepositoryPayloads \cup FileExtensionPayloads
    \cup DatePayloads \cup WrapperPayloads \cup PrimitivePayloads
    \cup {SnakePayload, ScenarioPayload}

----------------------------------------------------------------------------
(* Specification of the normalizer: a payload is normalized, and the       *)
(* snapshot returned is normalized once more.                              *)

InitNorm ==
  /\ FilterIdle
  /\ TimeIdle
  /\ SeriesIdle
  /\ payload \in Payloads
  /\ seconds \in {DefaultSecondsPerSuggestion, DefaultSecondsPerSuggestion + MaxSeconds}
  /\ normOut = NotCalled
  /\ normAgain = NotCalled
  /\ npc = "idle"
  /\ ServiceIdle
  /\ ClientIdle
  /\ ProviderIdle

Enhance ==
  /\ npc = "idle"
  /\ normOut' = enhanceWithDerivedMetrics(payload, seconds)
  /\ npc' = "enhanced"
  /\ UNCHANGED <<payload, seconds, normAgain, filterVars, timeVars, seriesVars, serviceVars, clientVars, providerVars>>

EnhanceAgain ==
  /\ npc = "enhanced"
  /\ ~normOut.threw
  /\ normAgain' = enhanceWithDerivedMetrics(normOut.value, seconds)
  /\ npc' = "again"
  /\ UNCHANGED <<payload, seconds, normOut, filterVars, timeVars, seriesVars, serviceVars, clientVars, providerVars>>

NextNorm == Enhance \/ EnhanceAgain

SpecNorm == InitNorm /\ [][NextNorm]_vars

----------------------------------------------------------------------------
(* Properties of the normalizer *)

TopFields == {TopFieldKeys[i][2] : i \in DOMAIN TopFieldKeys}
EntryFields == {EntryFieldKeys[i][2] : i \in DOMAIN EntryFieldKeys}

\* a number other than NaN
IsNumber(v) == v.t \in {"num", "inf"}

HasNumericFields(entry) ==
  /\ ~IsNullish(entry)
  /\ \A key \in EntryFields : IsNumber(Get(entry, key))

Normalized == npc # "idle" /\ ~normOut.threw

repositoriesOut == Get(normOut.value, "repositoryMetrics").a
extensionsOut == Get(normOut.value, "fileExtensionMetrics").f

\* C5: every numeric field of the snapshot returned for a malformed or
\* partial payload - the eight top-level fields, estimatedTimeSaved, and the
\* count and percentage fields of every repository and file-extension
\* entry - is a number other than NaN.
NormalizerDefaultSafety ==
  Normalized =>
    /\ \A key \in TopFields \cup {"estimatedTimeSaved"} :
          IsNumber(Get(normOut.value, key))
    /\ \A i \in DOMAIN repositoriesOut : HasNumericFields(repositoriesOut[i])
    /\ \A ext \in DOMAIN extensionsOut : HasNumericFields(extensionsOut[ext])

\* C6: the normalizer returns a snapshot for every input; it never throws.
NormalizerNeverRaises ==
  npc # "idle" => ~normOut.threw

\* C10: normalizing a snapshot the normalizer returned, with the same
\* secondsPerSuggestion, returns a snapshot equal to it field by field.
NormalizerIdempotent ==
  npc = "again" =>
    /\ ~normAgain.threw
    /\ \A key \in TopFields \cup {"estimatedTimeSaved", "repositoryMetrics",
                                  "fileExtensionMetrics", "dateRange"} :
          Get(normAgain.value, key) = Get(normOut.value, key)
    /\ normAgain.value = normOut.value

NormalizerIdempotentWitness ==
  /\ npc = "again"
  /\ payload = SnakePayload
  /\ normAgain.value = normOut.value
  /\ Get(normOut.value, "totalCompletionsCount") = Num(500)
  /\ Len(repositoriesOut) = 1
  /\ Get(repositoriesOut[1], "completionsCount") = Num(100)
  /\ DOMAIN extensionsOut = {"ts"}
  /\ Get(normOut.value, "dateRange") =
       Obj([startDate |-> Str(<<"3">>), endDate |-> Str(<<"4">>)])
  /\ Get(normOut.value, "estimatedTimeSaved").n > 0

----------------------------------------------------------------------------
(* MetricsService (application/metrics/metrics-service) over CacheService  *)
(* and the API client, and the comparison page that consumes               *)
(* getTeamComparisonData.  Team slugs are strings of characters; the       *)
(* empty string stands for an absent slug (both are falsy).  Calls are     *)
(* made without dates, so every key ends in 'all', 'all'.                  *)

NoSlug == << >>
ReservedSlug == <<"t", "e", "a", "m", "s">>
OrgScope == <<"o", "r", "g">>

\* teamSlugs.join(',')
RECURSIVE Join(_)
Join(teamSlugs) ==
  IF teamSlugs = << >> THEN << >>
  ELSE IF Len(teamSlugs) = 1 THEN Head(teamSlugs)
  ELSE Head(teamSlugs) \o <<",">> \o Join(Tail(teamSlugs))

\* the cache key templates; op is the literal prefix of the key
CacheKey(op, scope, metric, periods, periodDays) ==
  [op |-> op, org |-> Org, scope |-> scope, metric |-> metric,
   periods |-> periods, periodDays |-> periodDays,
   startDate |-> "all", endDate |-> "all"]

orgMetricsKey == CacheKey("org-metrics", << >>, "", 0, 0)

teamMetricsKey(teamSlug) == CacheKey("team-metrics", teamSlug, "", 0, 0)

metricsTrendKey(teamSlug, metric, periods, periodDays) ==
  CacheKey("metrics-trend", IF teamSlug # NoSlug THEN teamSlug ELSE OrgScope,
           metric, periods, periodDays)

teamComparisonKey(teamSlugs, metric) ==
  CacheKey("team-comparison", Join(teamSlugs), metric, 0, 0)

(* CacheService: the Map is a set of items, at most one per key; time is   *)
(* counted in minutes.                                                     *)

HasItem(c, key) == \E item \in c : item.key = key

cacheItem(c, key) == CHOOSE item \in c : item.key = key

\* the value get(key) returns at instant t
cacheGet(c, key, t) ==
  IF ~HasItem(c, key) THEN NullResult
  ELSE IF t - cacheItem(c, key).timestamp > defaultTtl THEN NullResult
  ELSE cacheItem(c, key).data

\* the Map after get(key) at instant t: an expired item is deleted
cacheAfterGet(c, key, t) ==
  IF HasItem(c, key) /\ t - cacheItem(c, key).timestamp > defaultTtl
  THEN c \ {cacheItem(c, key)}
  ELSE c

\* variant: a placeholder is stored instead of the data
cacheSetPlaceholder(c, key, data, t) ==
  {item \in c : item.key # key}
    \cup {[key |-> key, data |-> NullResult, timestamp |-> t]}

\* the Map after set(key, data) at instant t
cacheSet(c, key, data, t) ==
  {item \in c : item.key # key}
    \cup {[key |-> key, data |-> data, timestamp |-> t]}

(* getTeamComparisonData *)

\* the switch on the selector
comparisonValue(teamMetrics, metric) ==
  CASE metric = "completions" -> Num(teamMetrics.totalCompletionsCount)
    [] metric = "acceptanceRate" -> teamMetrics.totalAcceptancePercentage
    [] metric = "activeUsers" -> Num(teamMetrics.totalActiveUsers)
    [] metric = "timeSaved" -> Or(teamMetrics.estimatedTimeSaved, Num(0))
    [] OTHER -> Num(teamMetrics.totalCompletionsCount)

\* a canonical array index: such property keys are enumerated first, in
\* ascending numeric order, whatever the order of their creation
IsArrayIndex(chars) ==
  /\ chars # << >>
  /\ \A i \in DOMAIN chars : chars[i] \in Digits
  /\ Len(chars) > 1 => chars[1] # "0"

\* the position at which a new property appears in the enumeration of the
\* properties (a sequence of <<key, value>> pairs)
PropertyPosition(props, key) ==
  IF IsArrayIndex(key)
  THEN 1 + Cardinality({i \in DOMAIN props :
                          /\ IsArrayIndex(props[i][1])
                          /\ parseDigits(props[i][1], 0) < parseDigits(key, 0)})
  ELSE Len(props) + 1

\* values[teamSlug] = value
assignProperty(props, key, value) ==
  IF \E i \in DOMAIN props : props[i][1] = key
  THEN [i \in DOMAIN props |->
          IF props[i][1] = key THEN <<key, value>> ELSE props[i]]
  ELSE LET at == PropertyPosition(props, key)
       IN SubSeq(props, 1, at - 1) \o << <<key, value>> >>
            \o SubSeq(props, at, Len(props))

\* Object.entries(values)
ObjectEntries(values) == values

ComparisonResult(metric, teamSlugs, values) ==
  [metric |-> metric, entities |-> teamSlugs, values |-> values]

(* getHighestValueTeam (comparison page) *)

\* value > highest.value
JsGreater(a, b) ==
  \/ a.t = "num" /\ b.t = "num" /\ a.n * b.d > b.n * a.d
  \/ a.t = "inf" /\ b.t = "num"

RECURSIVE reduceHighest(_, _, _)
reduceHighest(entries, i, highest) ==
  IF i > Len(entries) THEN highest
  ELSE reduceHighest(entries, i + 1,
         IF JsGreater(entries[i][2], highest.value)
         THEN [team |-> entries[i][1], value |-> entries[i][2]]
         ELSE highest)

getHighestValueTeam(data) ==
  IF data = NullResult THEN NullResult
  ELSE LET entries == ObjectEntries(data.values)
       IN IF Len(entries) = 0 THEN NullResult
          ELSE reduceHighest(entries, 1,
                 [team |-> entries[1][1], value |-> entries[1][2]])

\* the state of the loop over teamSlugs: the team being handled, the values
\* collected, the Map, and what the cache returned during the call
LoopState(pc, i, values, c, hit) ==
  [pc |-> pc, i |-> i, values |-> values, cache |-> c, hits |-> hit]

\* the loop from team st.i on, up to the first team whose snapshot has to be
\* requested, the first team the API client rejects, or the end of the list
RECURSIVE compareFrom(_, _, _)
compareFrom(call, st, t) ==
  IF st.i > Len(call.teamSlugs)
  THEN [st EXCEPT !.pc = "done"]
  ELSE LET teamSlug == call.teamSlugs[st.i]
           key == teamMetricsKey(teamSlug)
           cached == IF call.skipCache THEN NullResult
                     ELSE cacheGet(st.cache, key, t)
           c == IF call.skipCache THEN st.cache
                ELSE cacheAfterGet(st.cache, key, t)
       IN IF cached # NullResult
          THEN compareFrom(call,
                 LoopState("loop", st.i + 1,
                   assignProperty(st.values, teamSlug,
                                  comparisonValue(cached, call.metric)),
                   c, st.hits \cup {<<key, cached>>}), t)
          ELSE IF teamSlug = NoSlug \/ teamSlug = ReservedSlug
          THEN [st EXCEPT !.pc = "failed", !.cache = c]
          ELSE [st EXCEPT !.pc = "fetching", !.cache = c]

\* the error getOrganizationMetrics of the API client throws
organizationError(status, message) ==
  [kind |-> "Failed to fetch Copilot metrics for organization", org |-> Org,
   teamSlug |-> NoSlug, status |-> status, message |-> message]

\* the error getTeamMetrics of the API client throws
teamError(teamSlug, status, message) ==
  [kind |-> "Failed to fetch Copilot metrics for team", org |-> Org,
   teamSlug |-> teamSlug, status |-> status, message |-> message]

\* the errors getMetricsTimeSeries throws
invalidSlugError(teamSlug) ==
  [kind |-> "Invalid team slug", org |-> "none", teamSlug |-> teamSlug,
   status |-> "none", message |-> "is not allowed"]

timeSeriesError(teamSlug) ==
  [kind |-> "Failed to fetch metrics for",
   org |-> IF teamSlug # NoSlug THEN "none" ELSE Org,
   teamSlug |-> teamSlug, status |-> "none", message |-> "none"]

Call(op, teamSlugs, metric, periods, periodDays, skipCache, key) ==
  [op |-> op, teamSlugs |-> teamSlugs, metric |-> metric, periods |-> periods,
   periodDays |-> periodDays, skipCache |-> skipCache, key |-> key,
   i |-> 0, values |-> << >>]

ServiceReady ==
  /\ svcPc \in {"idle", "done", "failed"}
  /\ svcCalls < MaxCalls

\* a call begins: the cache is consulted unless skipCache
Begin(call) ==
  /\ ServiceReady
  /\ svcCalls' = svcCalls + 1
  /\ UNCHANGED now

Hit(call) ==
  /\ ~call.skipCache
  /\ cacheGet(cache, call.key, now) # NullResult

\* the cached value is returned
ReturnCached(call) ==
  /\ svcCall' = call
  /\ svcPc' = "done"
  /\ svcResult' = cacheGet(cache, call.key, now)
  /\ hits' = {<<call.key, cacheGet(cache, call.key, now)>>}
  /\ svcErr' = NoServiceError
  /\ svcRequests' = 0
  /\ UNCHANGED <<cache, produced>>

Looked(call) ==
  IF call.skipCache THEN cache ELSE cacheAfterGet(cache, call.key, now)

\* the API client issues its request and the call is suspended
Request(call) ==
  /\ svcCall' = call
  /\ svcPc' = "fetching"
  /\ svcResult' = NullResult
  /\ hits' = {}
  /\ svcErr' = NoServiceError
  /\ svcRequests' = 1
  /\ cache' = Looked(call)
  /\ UNCHANGED produced

\* the API client throws before any request
Reject(call, error) ==
  /\ svcCall' = call
  /\ svcPc' = "failed"
  /\ svcResult' = NullResult
  /\ hits' = {}
  /\ svcErr' = error
  /\ svcRequests' = 0
  /\ cache' = Looked(call)
  /\ UNCHANGED produced

\* the call returns data obtained from the API client, after caching it
Return(call, data, c, hit, requests) ==
  /\ svcCall' = call
  /\ svcPc' = "done"
  /\ svcResult' = data
  /\ hits' = hit
  /\ svcErr' = NoServiceError
  /\ svcRequests' = requests
  /\ cache' = cacheSet(c, call.key, data, now)

\* MetricsService.getOrganizationMetrics up to the await
CallOrganizationMetrics(skipCache) ==
  LET call == Call("org-metrics", << >>, "", 0, 0, skipCache, orgMetricsKey)
  IN /\ Begin(call)
     /\ IF Hit(call) THEN ReturnCached(call) ELSE Request(call)
     /\ UNCHANGED <<comparisonData, highestValueTeam>>
     /\ UNCHANGED <<filterVars, timeVars, seriesVars, normVars, clientVars, providerVars>>

\* MetricsService.getTeamMetrics up to the await
CallTeamMetrics(teamSlug, skipCache) ==
  LET call == Call("team-metrics", <<teamSlug>>, "", 0, 0, skipCache,
                   teamMetricsKey(teamSlug))
  IN /\ Begin(call)
     /\ IF Hit(call) THEN ReturnCached(call)
        ELSE IF teamSlug = NoSlug \/ teamSlug = ReservedSlug
        THEN Reject(call, teamError(teamSlug, "unknown", "Invalid team slug"))
        ELSE Request(call)
     /\ UNCHANGED <<comparisonData, highestValueTeam>>
     /\ UNCHANGED <<filterVars, timeVars, seriesVars, normVars, clientVars, providerVars>>

\* MetricsService.getMetricsTrend up to the await
CallMetricsTrend(metric, teamSlug, skipCache) ==
  LET call == Call("metrics-trend", <<teamSlug>>, metric, defaultPeriods,
                   defaultPeriodDays, skipCache,
                   metricsTrendKey(teamSlug, metric, defaultPeriods,
                                   defaultPeriodDays))
  IN /\ Begin(call)
     /\ IF Hit(call) THEN ReturnCached(call)
        ELSE IF teamSlug = ReservedSlug
        THEN Reject(call, invalidSlugError(teamSlug))
        ELSE Request(call)
     /\ UNCHANGED <<comparisonData, highestValueTeam>>
     /\ UNCHANGED <<filterVars, timeVars, seriesVars, normVars, clientVars, providerVars>>

\* the loop of getTeamComparisonData, resumed in state st0
Compare(call, st0, requests, fetched) ==
  LET st == compareFrom(call, st0, now)
      running == [call EXCEPT !.i = st.i, !.values = st.values]
      result == ComparisonResult(call.metric, call.teamSlugs, st.values)
  IN CASE st.pc = "done" ->
            /\ Return(running, result, st.cache, st.hits, requests)
            /\ produced' = fetched \cup {<<call.key, result>>}
            /\ comparisonData' = result
            /\ highestValueTeam' = getHighestValueTeam(result)
       [] st.pc = "fetching" ->
            /\ svcCall' = running
            /\ svcPc' = "fetching"
            /\ svcResult' = NullResult
            /\ hits' = st.hits
            /\ svcErr' = NoServiceError
            /\ svcRequests' = requests + 1
            /\ cache' = st.cache
            /\ produced' = fetched
            /\ UNCHANGED <<comparisonData, highestValueTeam>>
       [] st.pc = "failed" ->
            /\ svcCall' = running
            /\ svcPc' = "failed"
            /\ svcResult' = NullResult
            /\ hits' = st.hits
            /\ svcErr' = teamError(call.teamSlugs[st.i], "unknown",
                                   "Invalid team slug")
            /\ svcRequests' = requests
            /\ cache' = st.cache
            /\ produced' = fetched
            /\ UNCHANGED <<comparisonData, highestValueTeam>>

\* MetricsService.getTeamComparisonData up to its first await of a request
CallTeamComparisonData(teamSlugs, metric, skipCache) ==
  LET call == Call("team-comparison", teamSlugs, metric, 0, 0, skipCache,
                   teamComparisonKey(teamSlugs, metric))
  IN /\ Begin(call)
     /\ IF Hit(call)
        THEN /\ ReturnCached(call)
             /\ comparisonData' = cacheGet(cache, call.key, now)
             /\ highestValueTeam' =
                  getHighestValueTeam(cacheGet(cache, call.key, now))
        ELSE Compare(call, LoopState("loop", 1, << >>, Looked(call), {}), 0,
                     produced)
     /\ UNCHANGED <<filterVars, timeVars, seriesVars, normVars, clientVars, providerVars>>

\* the request of the suspended call is answered with the snapshot m
TransportResponds(m, hour) ==
  /\ svcPc = "fetching"
  /\ UNCHANGED <<now, svcCalls>>
  /\ CASE svcCall.op \in {"org-metrics", "team-metrics"} ->
            /\ Return(svcCall, m, cache, hits, svcRequests)
            /\ produced' = produced \cup {<<svcCall.key, m>>}
            /\ UNCHANGED <<comparisonData, highestValueTeam>>
       [] svcCall.op = "metrics-trend" ->
            LET periods == adjustPeriods(svcCall.periods, svcCall.periodDays)
                data == buildTrend(m, svcCall.metric, periods[1], periods[2],
                                   Today * HoursPerDay + hour)
            IN /\ Return(svcCall, data, cache, hits, svcRequests)
               /\ produced' = produced \cup {<<svcCall.key, data>>}
               /\ UNCHANGED <<comparisonData, highestValueTeam>>
       [] svcCall.op = "team-comparison" ->
            LET teamSlug == svcCall.teamSlugs[svcCall.i]
                key == teamMetricsKey(teamSlug)
                st == LoopState("loop", svcCall.i + 1,
                        assignProperty(svcCall.values, teamSlug,
                                       comparisonValue(m, svcCall.metric)),
                        cacheSet(cache, key, m, now), hits)
            IN Compare(svcCall, st, svcRequests, produced \cup {<<key, m>>})
  /\ UNCHANGED <<filterVars, timeVars, seriesVars, normVars, clientVars, providerVars>>

\* the request of the suspended call fails with an upstream status
TransportFails(status) ==
  /\ svcPc = "fetching"
  /\ svcPc' = "failed"
  /\ svcErr' =
       CASE svcCall.op = "org-metrics" -> organizationError(status, "upstream")
         [] svcCall.op = "team-metrics" ->
              teamError(svcCall.teamSlugs[1], status, "upstream")
         [] svcCall.op = "metrics-trend" -> timeSeriesError(svcCall.teamSlugs[1])
         [] svcCall.op = "team-comparison" ->
              teamError(svcCall.teamSlugs[svcCall.i], status, "upstream")
  /\ UNCHANGED <<cache, now, svcCall, svcResult, svcRequests, svcCalls, hits,
                 produced, comparisonData, highestValueTeam>>
  /\ UNCHANGED <<filterVars, timeVars, seriesVars, normVars, clientVars, providerVars>>

\* time passes between two events
Tick(minutes) ==
  /\ now + minutes <= MaxNow
  /\ now' = now + minutes
  /\ UNCHANGED <<cache, svcCall, svcPc, svcResult, svcErr, svcRequests,
                 svcCalls, hits, produced, comparisonData, highestValueTeam>>
  /\ UNCHANGED <<filterVars, timeVars, seriesVars, normVars, clientVars, providerVars>>

InitService ==
  /\ FilterIdle
  /\ TimeIdle
  /\ SeriesIdle
  /\ NormIdle
  /\ ServiceIdle
  /\ ClientIdle
  /\ ProviderIdle

(* Specification of the comparison page: a MetricsService is created and   *)
(* getTeamComparisonData is called on it once.                             *)

ComparisonSlugs == {<<"a">>, <<"b">>, <<"7">>}
RECURSIVE SlugLists(_)
SlugLists(n) ==
  IF n = 0 THEN {<< >>}
  ELSE {<< >>} \cup {<<s>> \o l : s \in ComparisonSlugs, l \in SlugLists(n - 1)}
TeamLists == SlugLists(MaxTeams) \ {<< >>}
ComparisonMetricIds ==
  {"completions", "acceptanceRate", "activeUsers", "avgCompletions", "timeSaved"}
TeamSnapshots ==
  {Snapshot(c, MaxTotal, a, MaxCount, 0, Today - maxHistoricalDays, Today) :
     c \in {0, MaxTotal}, a \in {0, MaxTotal \div 2}}

NextComparison ==
  \/ \E teamSlugs \in TeamLists, metric \in ComparisonMetricIds :
       /\ svcCalls = 0
       /\ CallTeamComparisonData(teamSlugs, metric, FALSE)
  \/ \E m \in TeamSnapshots : TransportResponds(m, 0)
  \/ \E status \in UpstreamStatuses : TransportFails(status)

SpecComparison == InitService /\ [][NextComparison]_vars

(* Specification of the service: calls are made one after the other on    *)
(* one MetricsService, and time passes between events.                     *)

ServiceSlugs == {<<"a">>, ReservedSlug}
TrendSlugs == {NoSlug, OrgScope, ReservedSlug}
ServiceTeamLists == {<< <<"a">> >>, << <<"a">>, <<"b">> >>, << <<"a">>, ReservedSlug >>}
ServiceSnapshots ==
  {Snapshot(c, MaxTotal, 0, MaxCount, 0, Today - maxHistoricalDays, Today) :
     c \in {0, MaxTotal}}

NextService ==
  \/ \E skipCache \in BOOLEAN : CallOrganizationMetrics(skipCache)
  \/ \E teamSlug \in ServiceSlugs, skipCache \in BOOLEAN :
       CallTeamMetrics(teamSlug, skipCache)
  \/ \E teamSlug \in TrendSlugs, skipCache \in BOOLEAN :
       CallMetricsTrend("completions", teamSlug, skipCache)
  \/ \E teamSlugs \in ServiceTeamLists, skipCache \in BOOLEAN :
       CallTeamComparisonData(teamSlugs, "completions", skipCache)
  \/ \E m \in ServiceSnapshots : TransportResponds(m, 0)
  \/ \E status \in UpstreamStatuses : TransportFails(status)
  \/ \E minutes \in {defaultTtl, defaultTtl + 1} : Tick(minutes)

SpecService == InitService /\ [][NextService]_vars

----------------------------------------------------------------------------
(* Properties of the comparator *)

\* the value values[teamSlug] of a comparison result
ValueOf(data, teamSlug) ==
  LET i == CHOOSE j \in DOMAIN data.values : data.values[j][1] = teamSlug
  IN data.values[i][2]

HasValue(data, teamSlug) ==
  \E j \in DOMAIN data.values : data.values[j][1] = teamSlug

\* the positions in the input ordering of the teams with the maximal value
MaximalPositions(data) ==
  {i \in DOMAIN data.entities :
     \A j \in DOMAIN data.entities :
       ~JsGreater(ValueOf(data, data.entities[j]), ValueOf(data, data.entities[i]))}

Tied(data) ==
  \E i \in MaximalPositions(data), j \in MaximalPositions(data) :
    data.entities[i] # data.entities[j]

\* C11: when several compared teams share the maximal value of the selected
\* metric, the team designated highest is the one of them that comes first
\* in the team-slug ordering passed to getTeamComparisonData.
ComparatorTieBreak ==
  (comparisonData # NullResult /\ Tied(comparisonData)) =>
    LET first == CHOOSE i \in MaximalPositions(comparisonData) :
                   \A j \in MaximalPositions(comparisonData) : i <= j
    IN highestValueTeam.team = comparisonData.entities[first]

\* C12: a getTeamComparisonData call in which the snapshot fetch of one team
\* failed does not fail: the other teams are still fetched and the call
\* yields a result whose values hold exactly the teams that were obtained.
ComparatorPartialFailure ==
  (svcCall.op = "team-comparison" /\ svcErr.kind # "none") =>
    /\ svcPc # "failed"
    /\ svcPc = "done" =>
         /\ ~HasValue(svcResult, svcErr.teamSlug)
         /\ \A i \in DOMAIN svcCall.teamSlugs :
              svcCall.teamSlugs[i] # svcErr.teamSlug =>
                HasValue(svcResult, svcCall.teamSlugs[i])

\* the field of a snapshot a selector stands for
SelectedField(m, metric) ==
  CASE metric = "completions" -> Num(m.totalCompletionsCount)
    [] metric = "acceptanceRate" -> m.totalAcceptancePercentage
    [] metric = "activeUsers" -> Num(m.totalActiveUsers)
    [] metric = "timeSaved" -> m.estimatedTimeSaved
    [] metric = "avgCompletions" -> m.avgCompletionsPerUser

\* C13: the value reported for each team is the field of that team's
\* snapshot the selector stands for: avgCompletionsPerUser for
\* 'avgCompletions', totalCompletionsCount for 'completions',
\* totalAcceptancePercentage for 'acceptanceRate', totalActiveUsers for
\* 'activeUsers' and estimatedTimeSaved for 'timeSaved'.
ComparatorMetricSelector ==
  (svcCall.op = "team-comparison" /\ svcPc = "done") =>
    \A i \in DOMAIN svcResult.values :
      LET teamSlug == svcResult.values[i][1]
          teamMetrics == cacheItem(cache, teamMetricsKey(teamSlug)).data
      IN svcResult.values[i][2] = SelectedField(teamMetrics, svcCall.metric)

----------------------------------------------------------------------------
(* Properties of failure handling and of the cache *)

\* C14: when the snapshot fetch inside getMetricsTimeSeries fails, the call
\* rejects without a trend, and the error names the organization or team
\* and carries the upstream status of the failed request.
TimeSeriesFailureMode ==
  spc = "failed" =>
    /\ trend = NoTrend
    /\ seriesErr.name = (IF seriesReq.teamSlug # NoTeam
                         THEN seriesReq.teamSlug ELSE Org)
    /\ seriesErr.status \in UpstreamStatuses

\* C15: getTeamMetrics and getMetricsTimeSeries called with the reserved
\* slug 'teams' are rejected without any transport request, with a failure
\* of the invalid-slug kind, not the upstream-fetch kind.
InvalidScopeRejected ==
  (/\ svcCall.op \in {"team-metrics", "metrics-trend"}
   /\ svcCall.teamSlugs[1] = ReservedSlug) =>
    /\ svcPc = "failed"
    /\ svcRequests = 0
    /\ svcErr.kind = "Invalid team slug"

\* the keys whose fetch failed when the call failed
FailedKeys(call) ==
  {call.key} \cup (IF call.op = "team-comparison"
                   THEN {teamMetricsKey(call.teamSlugs[call.i])} ELSE {})

ItemsUnder(c, key) == {item \in c : item.key = key}

\* C16: every item of the cache holds, under its key, a result a successful
\* fetch for that key produced; a step in which a fetch fails leaves the
\* cache unchanged for the key of that fetch; and every value a cache hit
\* returned is a result a successful fetch for the same key produced
\* earlier.
CacheInsertionAfterSuccess ==
  /\ [](/\ \A item \in cache : <<item.key, item.data>> \in produced
        /\ hits \subseteq produced)
  /\ [][svcPc' = "failed" =>
          \A key \in FailedKeys(svcCall') :
            ItemsUnder(cache', key) = ItemsUnder(cache, key)]_vars

CacheInsertionAfterSuccessWitness ==
  /\ svcPc = "done"
  /\ hits # {}
  /\ svcRequests = 0
  /\ svcResult # NullResult
  /\ <<svcCall.key, svcResult>> \in hits

----------------------------------------------------------------------------
(* Field resolution and collections of the normalizer *)

\* the object the fields are read from
EffectiveSource(metricsData) ==
  Or(Get(metricsData, "metrics"), Or(Get(metricsData, "data"), metricsData))

\* the repository collection that is mapped: the snake-style array, else
\* the camel-style array
RepositoriesIn(metricsObj) ==
  IF IsArray(Get(metricsObj, "repository_metrics"))
  THEN Get(metricsObj, "repository_metrics").a
  ELSE IF IsArray(Get(metricsObj, "repositoryMetrics"))
       THEN Get(metricsObj, "repositoryMetrics").a
       ELSE << >>

ExtensionsIn(metricsObj) ==
  Or(Get(metricsObj, "file_extension_metrics"),
     Or(Get(metricsObj, "fileExtensionMetrics"), Obj(<< >>)))

\* C17: every canonical numeric field - the eight top-level fields and the
\* count and percentage fields of every repository and file-extension
\* entry - is the value of the snake-style key when present, else of the
\* camel-style key, else 0, a numeric string being parsed and any other
\* non-number becoming 0.
UniformFieldResolution ==
  (Normalized /\ JsTruthy(payload)) =>
    LET metricsObj == EffectiveSource(payload)
    IN /\ \A i \in DOMAIN TopFieldKeys :
            Get(normOut.value, TopFieldKeys[i][2]) =
              getNumberValue(metricsObj, TopFieldKeys[i][1], TopFieldKeys[i][2])
       /\ payload = ScenarioPayload =>
            /\ Get(normOut.value, "totalCompletionsCount") = Num(500)
            /\ Get(normOut.value, "totalAcceptanceCount") = Num(200)
       /\ \A r \in DOMAIN repositoriesOut : \A i \in DOMAIN EntryFieldKeys :
            Get(repositoriesOut[r], EntryFieldKeys[i][2]) =
              getNumberValue(RepositoriesIn(metricsObj)[r],
                             EntryFieldKeys[i][1], EntryFieldKeys[i][2])
       /\ \A ext \in DOMAIN extensionsOut : \A i \in DOMAIN EntryFieldKeys :
            Get(extensionsOut[ext], EntryFieldKeys[i][2]) =
              getNumberValue(Element(ExtensionsIn(metricsObj), ext),
                             EntryFieldKeys[i][1], EntryFieldKeys[i][2])

\* an element that is null, not an object, or has a field that is not a
\* number
Malformed(element) ==
  \/ element.t # "obj"
  \/ \E i \in DOMAIN EntryFieldKeys, j \in 1..2 :
       /\ Get(element, EntryFieldKeys[i][j]) # Undefined
       /\ ~IsNumber(Get(element, EntryFieldKeys[i][j]))

\* the elements of seq at the positions in keep, in order
Keep(seq, keep) ==
  LET positions == SelectSeq([i \in DOMAIN seq |-> i], LAMBDA i : i \in keep)
  IN [k \in DOMAIN positions |-> seq[positions[k]]]

WellFormedPositions(seq) == {i \in DOMAIN seq : ~Malformed(seq[i])}

\* the payload without the malformed elements of its repository collection
WithoutMalformed(metricsObj, key) ==
  LET list == Get(metricsObj, key).a
  IN Obj([k \in DOMAIN metricsObj.f |->
            IF k = key THEN Arr(Keep(list, WellFormedPositions(list)))
            ELSE metricsObj.f[k]])

\* C18: when an element of the repository collection is malformed, the
\* normalizer still returns a snapshot, whose top-level fields and whose
\* entries for the well-formed elements are those it returns for the
\* payload without the malformed element; likewise a malformed value of the
\* file-extension collection does not make the call fail.
PerElementIsolation ==
  /\ (/\ npc # "idle"
      /\ payload \in RepositoryPayloads
      /\ \E key \in {"repository_metrics", "repositoryMetrics"} :
           /\ IsArray(Get(payload, key))
           /\ \E i \in DOMAIN Get(payload, key).a : Malformed(Get(payload, key).a[i]))
     => /\ ~normOut.threw
        /\ LET key == CHOOSE k \in {"repository_metrics", "repositoryMetrics"} :
                        IsArray(Get(payload, k))
               expected == enhanceWithDerivedMetrics(WithoutMalformed(payload, key),
                                                    seconds).value
           IN /\ \A f \in TopFields \cup {"estimatedTimeSaved"} :
                   Get(normOut.value, f) = Get(expected, f)
              /\ Keep(repositoriesOut, WellFormedPositions(Get(payload, key).a))
                   = Get(expected, "repositoryMetrics").a
  /\ (/\ npc # "idle"
      /\ payload \in FileExtensionPayloads
      /\ \E ext \in ObjectKeys(ExtensionsIn(payload)) :
           Malformed(Element(ExtensionsIn(payload), ext)))
     => /\ ~normOut.threw
        /\ \A ext \in ObjectKeys(ExtensionsIn(payload)) :
             ~Malformed(Element(ExtensionsIn(payload), ext)) =>
               extensionsOut[ext] = mapFileExtension(Element(ExtensionsIn(payload), ext))

----------------------------------------------------------------------------
(* Ratios and time saved of the rescaled snapshot *)

Overlapping ==
  /\ Rescaled
  /\ WellFormed(curRange)
  /\ ~EntirelyOutside(curRange)

\* a ratio field recomputed from the scaled counts, with the zero guard
RatioRecomputed(field, numerator, denominator, factor, original) ==
  /\ field.t = "num"
  /\ IF denominator # 0
     THEN field = JsTimes(JsDiv(numerator, denominator), factor)
     ELSE field \in {Num(0), original}

EntryRatioRecomputed(entry, original) ==
  RatioRecomputed(entry.acceptancePercentage, entry.acceptanceCount,
                  entry.suggestionsCount, 100, original.acceptancePercentage)

\* C19: for an overlapping window, totalAcceptancePercentage,
\* avgCompletionsPerUser, avgSuggestionsPerUser and the acceptancePercentage
\* of every entry are the quotients of the scaled counts of the result, or,
\* when the scaled denominator is 0, 0 or the original value; none of them
\* is NaN or Infinity.
RescalerRatioGuard ==
  Overlapping =>
    /\ RatioRecomputed(filtered.totalAcceptancePercentage,
                       filtered.totalAcceptanceCount,
                       filtered.totalSuggestionCount, 100,
                       metrics.totalAcceptancePercentage)
    /\ RatioRecomputed(filtered.avgCompletionsPerUser,
                       filtered.totalCompletionsCount,
                       filtered.totalActiveUsers, 1,
                       metrics.avgCompletionsPerUser)
    /\ RatioRecomputed(filtered.avgSuggestionsPerUser,
                       filtered.totalSuggestionCount,
                       filtered.totalActiveUsers, 1,
                       metrics.avgSuggestionsPerUser)
    /\ \A r \in DOMAIN filtered.repositoryMetrics :
         EntryRatioRecomputed(filtered.repositoryMetrics[r],
                              metrics.repositoryMetrics[r])
    /\ \A e \in DOMAIN filtered.fileExtensionMetrics :
         EntryRatioRecomputed(filtered.fileExtensionMetrics[e],
                              metrics.fileExtensionMetrics[e])

\* C20: for an overlapping window, estimatedTimeSaved of the result is
\* calculateTimeSaved of the scaled totalAcceptanceCount.
RescalerTimeSaved ==
  Overlapping =>
    filtered.estimatedTimeSaved =
      calculateTimeSaved(filtered.totalAcceptanceCount, DefaultSecondsPerSuggestion)

----------------------------------------------------------------------------
(* Day counting *)

\* the number of calendar dates from startDate to endDate, both counted,
\* at least 1
InclusiveDays(startDate, endDate) == Max(1, endDate - startDate + 1)

\* C21: the counts of the rescaled snapshot are the original counts times
\* overlapDays / coveredDays, rounded, each day count being the number of
\* calendar dates of its window with both ends counted, at least 1.
RescalerDayCounting ==
  Overlapping =>
    LET overlapDays == InclusiveDays(Max(curRange.startDate, coveredWindow.startDate),
                                     Min(curRange.endDate, coveredWindow.endDate))
        coveredDays == InclusiveDays(coveredWindow.startDate, coveredWindow.endDate)
    IN \A i \in 1..4 :
         TotalCounts(filtered)[i] =
           MathRound(TotalCounts(metrics)[i] * overlapDays, coveredDays)

----------------------------------------------------------------------------
(* Properties of the periods of the synthesizer *)

Started == spc \in {"fetching", "done", "failed"}

\* C22: for periods >= 1 and periodDays >= 1 the adjusted pair has a count
\* of at least 1, a length of at least 1 and a product of at most
\* maxHistoricalDays; a request within the limit is kept, the count is kept
\* and the length shrunk when a length of at least 1 fits, and otherwise
\* the count is shrunk.
PeriodAdjustment ==
  Started =>
    LET periods == seriesReq.periods
        periodDays == seriesReq.periodDays
    IN /\ adjusted[1] >= 1
       /\ adjusted[2] >= 1
       /\ adjusted[1] * adjusted[2] <= maxHistoricalDays
       /\ periods * periodDays <= maxHistoricalDays =>
            adjusted = <<periods, periodDays>>
       /\ (periods * periodDays > maxHistoricalDays /\ periods <= maxHistoricalDays) =>
            adjusted = <<periods, MathFloor(maxHistoricalDays, periods)>>
       /\ periods > maxHistoricalDays => adjusted[1] < periods

SeriesDone == spc = "done"

\* the period (0 = most recent) of the k-th point in date order
PeriodIndex(k) == Len(trend.points) - k

\* the calendar dates of period i
PeriodEnd(i) == Today - i * adjusted[2]
PeriodStart(i) == PeriodEnd(i) - (adjusted[2] - 1)

\* the number of calendar dates period i shares with the covered window of
\* the fetched snapshot
SharedDays(i) ==
  Min(PeriodEnd(i), seriesMetrics.dateRange.endDate)
    - Max(PeriodStart(i), seriesMetrics.dateRange.startDate) + 1

CountMetrics == {"completions", "activeUsers"}

\* C23: for a count metric, every period sharing dates with the covered
\* window has the value round(total * overlapDays / coveredDays), both day
\* counts being numbers of calendar dates with both ends counted, at
\* least 1.
CountDistribution ==
  (SeriesDone /\ seriesReq.metric \in CountMetrics /\ adjusted[2] >= 1) =>
    LET total == metricsValue(seriesMetrics, seriesReq.metric).n
        coveredDays == InclusiveDays(seriesMetrics.dateRange.startDate,
                                     seriesMetrics.dateRange.endDate)
    IN \A k \in DOMAIN trend.points :
         SharedDays(PeriodIndex(k)) >= 1 =>
           trend.points[k].value =
             Num(MathRound(total * Max(1, SharedDays(PeriodIndex(k))), coveredDays))

\* C24: for the acceptance rate, every period sharing dates with the covered
\* window has the snapshot's totalAcceptancePercentage as its value, and
\* every other period has 0.
RateDistribution ==
  (SeriesDone /\ seriesReq.metric = "acceptanceRate") =>
    \A k \in DOMAIN trend.points :
      trend.points[k].value =
        IF SharedDays(PeriodIndex(k)) >= 1
        THEN seriesMetrics.totalAcceptancePercentage
        ELSE Num(0)

RECURSIVE SumOfValues(_)
SumOfValues(points) ==
  IF points = << >> THEN 0
  ELSE Head(points).value.n + SumOfValues(Tail(points))

\* C30: for a count metric the periods are pairwise disjoint ranges of
\* dates and the values of the points sum to at most the snapshot's total.
SeriesConservation ==
  (SeriesDone /\ seriesReq.metric \in CountMetrics) =>
    /\ \A i, j \in 0..(adjusted[1] - 1) :
         i < j => PeriodEnd(j) < PeriodStart(i)
    /\ SumOfValues(trend.points)
         <= metricsValue(seriesMetrics, seriesReq.metric).n

----------------------------------------------------------------------------
(* CopilotApiClient.getOrganizationMetrics and getTeamMetrics              *)
(* (copilot-api-client.ts).  Dates are day numbers written in decimal,     *)
(* instants are hours, the clock runs in UTC.                              *)

DigitChar(i) == CHOOSE c \in Digits : DigitValue(c) = i

\* the decimal digits of a natural number
RECURSIVE Decimal(_)
Decimal(n) ==
  IF n < 10 THEN <<DigitChar(n)>>
  ELSE Decimal(n \div 10) \o <<DigitChar(n % 10)>>

\* the date string format(instant, 'yyyy-MM-dd') yields
DateString(date) == Str(Decimal(date))

\* new Date('yyyy-MM-dd').getTime(): midnight of the date
newDate(date) == date * HoursPerDay

isAfter(a, b) == a > b
isBefore(a, b) == a < b

\* lines 46-77; instant is new Date()
validateDateRange(startDate, endDate, instant) ==
  LET endDateObj == IF endDate # NoDate THEN newDate(endDate) ELSE instant
      earliestAllowed == subDays(endDateObj, maxHistoricalDays)
  IN [until |-> IF isAfter(endDateObj, instant)
                THEN format(instant)
                ELSE format(endDateObj),
      since |-> IF startDate = NoDate THEN NoDate
                ELSE IF isBefore(newDate(startDate), earliestAllowed)
                     THEN format(earliestAllowed)
                     ELSE format(newDate(startDate))]

\* lines 167-170 and 291-294: the window written into the snapshot
attachedDateRange(dateRange, instant) ==
  Obj([startDate |-> DateString(IF dateRange.since # NoDate
                                THEN dateRange.since
                                ELSE format(subDays(instant, maxHistoricalDays))),
       endDate |-> DateString(IF dateRange.until # NoDate
                              THEN dateRange.until
                              ELSE format(instant))])

TypeofObject(v) == v.t \in {"obj", "arr", "null"}

\* lines 110-122 and 234-246
unwrapResponse(rawResponseData) ==
  IF JsTruthy(rawResponseData) /\ TypeofObject(rawResponseData)
  THEN IF JsTruthy(Get(rawResponseData, "data"))
          /\ TypeofObject(Get(rawResponseData, "data"))
       THEN Get(rawResponseData, "data")
       ELSE IF JsTruthy(Get(rawResponseData, "metrics"))
               /\ TypeofObject(Get(rawResponseData, "metrics"))
            THEN Get(rawResponseData, "metrics")
            ELSE rawResponseData
  ELSE rawResponseData

\* lines 127-142 and 251-266
defaultMetrics(dateRange, instant) ==
  Obj([totalCompletionsCount |-> Num(0),
       totalSuggestionCount |-> Num(0),
       totalAcceptanceCount |-> Num(0),
       totalAcceptancePercentage |-> Num(0),
       totalActiveUsers |-> Num(0),
       avgCompletionsPerUser |-> Num(0),
       avgSuggestionsPerUser |-> Num(0),
       avgAcceptancePercentage |-> Num(0),
       repositoryMetrics |-> Arr(<< >>),
       fileExtensionMetrics |-> Obj(<< >>),
       dateRange |-> attachedDateRange(dateRange, instant)])

\* lines 110-143: the object handed to the normalizer
metricsDataOf(rawResponseData, dateRange, instant) ==
  LET metricsData == unwrapResponse(rawResponseData)
  IN IF ~JsTruthy(metricsData) \/ ~TypeofObject(metricsData)
     THEN defaultMetrics(dateRange, instant)
     ELSE metricsData

\* lines 167-170: enhancedMetrics.dateRange = {...}
setDateRange(enhancedMetrics, dateRange, instant) ==
  Obj([key \in DOMAIN enhancedMetrics.f \cup {"dateRange"} |->
         IF key = "dateRange"
         THEN attachedDateRange(dateRange, instant)
         ELSE enhancedMetrics.f[key]])

\* lines 106-172 and 230-296: the snapshot returned for a response, or the
\* TypeError the normalizer raised
handleResponse(rawResponseData, dateRange, instant) ==
  LET enhanced == enhanceWithDerivedMetrics(
                    metricsDataOf(rawResponseData, dateRange, instant),
                    DefaultSecondsPerSuggestion)
  IN IF enhanced.threw THEN Thrown
     ELSE Returned(setDateRange(enhanced.value, dateRange, instant))

\* lines 86-104 and 204-228: the arguments are validated, the request is
\* issued; a team call with an unusable slug fails before any request
ClientCall(op, teamSlug, startDate, endDate) ==
  /\ cpc = "idle"
  /\ clientCall' = [op |-> op, teamSlug |-> teamSlug,
                    startDate |-> startDate, endDate |-> endDate]
  /\ clientRange' = IF startDate # NoDate \/ endDate # NoDate
                    THEN validateDateRange(startDate, endDate, clientNow)
                    ELSE NoValidatedRange
  /\ IF op = "team" /\ (teamSlug = NoSlug \/ teamSlug = ReservedSlug)
     THEN cpc' = "failed" /\ clientErr' = "unknown"
     ELSE cpc' = "requesting" /\ UNCHANGED clientErr
  /\ UNCHANGED <<rawResponse, clientNow, clientOut>>
  /\ UNCHANGED <<filterVars, timeVars, seriesVars, normVars, serviceVars, providerVars>>

\* lines 106-172, 188-192: the response arrived
ClientResponds(rawResponseData) ==
  /\ cpc = "requesting"
  /\ rawResponse' = rawResponseData
  /\ LET result == handleResponse(rawResponseData, clientRange, clientNow)
     IN /\ clientOut' = result
        /\ cpc' = IF result.threw THEN "failed" ELSE "done"
        /\ clientErr' = IF result.threw THEN "unknown" ELSE clientErr
  /\ UNCHANGED <<clientCall, clientRange, clientNow>>
  /\ UNCHANGED <<filterVars, timeVars, seriesVars, normVars, serviceVars, providerVars>>

\* lines 173-193: the request failed with an upstream status
ClientFails(status) ==
  /\ cpc = "requesting"
  /\ cpc' = "failed"
  /\ clientErr' = status
  /\ UNCHANGED <<clientCall, clientRange, rawResponse, clientNow, clientOut>>
  /\ UNCHANGED <<filterVars, timeVars, seriesVars, normVars, serviceVars, providerVars>>

\* an envelope around an envelope, each level with a field of its own
NestedPayloads ==
  {Obj([data |-> Obj([metrics |-> SnakePayload,
                      totalCompletionsCount |-> Num(7)])]),
   Obj([metrics |-> Obj([data |-> SnakePayload,
                         totalCompletionsCount |-> Num(7)])]),
   Obj([data |-> Obj([data |-> SnakePayload])])}

Responses ==
  WrapperPayloads \cup DatePayloads \cup PrimitivePayloads \cup NestedPayloads
    \cup {SnakePayload, ScenarioPayload}

\* absent, older than the limit, at the limit, recent, today, in the future
ArgumentDates ==
  {NoDate, Today - maxHistoricalDays - 5, Today - maxHistoricalDays,
   Today - 7, Today, Today + 3}

InitClient ==
  /\ FilterIdle
  /\ TimeIdle
  /\ SeriesIdle
  /\ NormIdle
  /\ ServiceIdle
  /\ clientCall = NoClientCall
  /\ clientRange = NoValidatedRange
  /\ rawResponse = Undefined
  /\ clientNow \in {Today * HoursPerDay + hour : hour \in HoursOfDay}
  /\ clientOut = NotCalled
  /\ clientErr = "none"
  /\ cpc = "idle"
  /\ ProviderIdle

NextClient ==
  \/ \E startDate \in ArgumentDates, endDate \in ArgumentDates :
       \/ ClientCall("organization", NoSlug, startDate, endDate)
       \/ \E teamSlug \in ServiceSlugs : ClientCall("team", teamSlug, startDate, endDate)
  \/ \E rawResponseData \in Responses : ClientResponds(rawResponseData)
  \/ \E status \in UpstreamStatuses : ClientFails(status)

SpecClient == InitClient /\ [][NextClient]_vars

----------------------------------------------------------------------------
(* Properties of the API client *)

ClientDone == cpc = "done"

\* the sources a single unwrap can yield: the sub-objects under the wrapper
\* keys, and the payload itself when neither key holds an object
SingleUnwrapSources(raw) ==
  LET IsEnvelope(key) == JsTruthy(Get(raw, key)) /\ TypeofObject(Get(raw, key))
      inner == {Get(raw, key) : key \in {k \in {"data", "metrics"} : IsEnvelope(k)}}
  IN IF inner = {} THEN {raw} ELSE inner

ResolvedAgainst(snapshot, source) ==
  \A i \in DOMAIN TopFieldKeys :
    Get(snapshot, TopFieldKeys[i][2]) =
      getNumberValue(source, TopFieldKeys[i][1], TopFieldKeys[i][2])

\* C25: the wrapper unwrap is applied at most once between the raw response
\* and field resolution: the fields of the returned snapshot are resolved
\* against the object under the wrapper key, or against the payload itself
\* when no wrapper key holds an object.
SingleUnwrap ==
  (ClientDone /\ rawResponse.t = "obj") =>
    \E source \in SingleUnwrapSources(rawResponse) :
      ResolvedAgainst(clientOut.value, source)

\* the window the effective source carries
CarriedWindow(source) ==
  IF JsTruthy(Get(source, "dateRange"))
  THEN Get(source, "dateRange")
  ELSE Obj([startDate |-> Or(Get(Get(source, "date_range"), "start_date"), Str(<< >>)),
            endDate |-> Or(Get(Get(source, "date_range"), "end_date"), Str(<< >>))])

CarriesWindow(source) ==
  JsTruthy(Get(source, "dateRange")) \/ JsTruthy(Get(source, "date_range"))

\* C26: the returned snapshot has the window the payload carries; the
\* window derived from the arguments or from today is attached only when
\* the payload carries none.
WindowAdoption ==
  (ClientDone /\ rawResponse.t = "obj") =>
    LET source == unwrapResponse(rawResponse)
    IN Get(clientOut.value, "dateRange") =
         IF CarriesWindow(source)
         THEN CarriedWindow(source)
         ELSE attachedDateRange(clientRange, clientNow)

\* the dates of the returned window, read back from their strings
returnedStart == parseDigits(Get(Get(clientOut.value, "dateRange"), "startDate").s, 0)
returnedEnd == parseDigits(Get(Get(clientOut.value, "dateRange"), "endDate").s, 0)

\* C29: for every combination of the optional arguments, the window of the
\* returned snapshot has startDate <= endDate, endDate <= today and spans
\* at most maxHistoricalDays days.
AttachedWindowWellFormed ==
  ClientDone =>
    /\ returnedStart <= returnedEnd
    /\ returnedEnd <= format(clientNow)
    /\ returnedEnd - returnedStart <= maxHistoricalDays

----------------------------------------------------------------------------
(* MetricsProvider (MetricsContext.tsx) with the dashboard page's handlers *)
(* (dashboard/page.tsx).  A handler runs to its first await in one step,   *)
(* and what follows the await runs in one step when the awaited fetch      *)
(* settles; the functions and state values a handler uses are those of the *)
(* render in which it was called.                                          *)

MaxFetches == 3

ProviderState ==
  [organizationMetrics |-> organizationMetrics,
   teamMetrics |-> teamMetricsBySlug,
   filteredOrganizationMetrics |-> filteredOrganizationMetrics,
   filteredTeamMetrics |-> filteredTeamMetrics,
   loading |-> loading,
   error |-> providerError,
   currentDateRange |-> currentDateRange,
   inFlight |-> inFlight]

Commit(st) ==
  /\ organizationMetrics' = st.organizationMetrics
  /\ teamMetricsBySlug' = st.teamMetrics
  /\ filteredOrganizationMetrics' = st.filteredOrganizationMetrics
  /\ filteredTeamMetrics' = st.filteredTeamMetrics
  /\ loading' = st.loading
  /\ providerError' = st.error
  /\ currentDateRange' = st.currentDateRange
  /\ inFlight' = st.inFlight

ObjectKeysOf(teams) == {slug \in ProviderSlugs : ~IsNull(teams[slug])}

\* a pending fetch: what it was called with and the currentDateRange of the
\* render that called it; awaited says that refreshData awaits it, teams
\* are the keys refreshData goes on to fetch
Fetch(id, kind, teamSlug, range, awaited, teams) ==
  [id |-> id, kind |-> kind, teamSlug |-> teamSlug, dateRange |-> range,
   awaited |-> awaited, teams |-> teams]

\* lines 196-211, for a closure over organizationMetrics and teamMetrics
filterByDateRange(st, org, teams, range) ==
  [st EXCEPT
     !.currentDateRange = range,
     !.filteredOrganizationMetrics =
        IF ~IsNull(org)
        THEN filterDataByDateRange(org, range.startDate, range.endDate)
        ELSE st.filteredOrganizationMetrics,
     !.filteredTeamMetrics =
        [slug \in ProviderSlugs |->
           filterDataByDateRange(teams[slug], range.startDate, range.endDate)]]

\* lines 214-230 and 256-276: up to the await
beginFetch(st, fetch) ==
  [st EXCEPT
     !.loading = TRUE,
     !.error = IF fetch.kind = "organization" THEN "null" ELSE st.error,
     !.inFlight = st.inFlight \cup {fetch}]

teamFetchError(teamSlug) ==
  IF teamSlug = "a" THEN "Failed to fetch team metrics for a"
  ELSE "Failed to fetch team metrics for b"

\* lines 250-252 and 298-300: setLoading(false)
settledLoading(pending) == FALSE

\* lines 236-252 and 278-300: after the await; m is the snapshot, null
\* when the client threw
settleFetch(st, fetch, m) ==
  LET pending == st.inFlight \ {fetch}
      filteredMetrics ==
        filterDataByDateRange(m, fetch.dateRange.startDate, fetch.dateRange.endDate)
  IN IF IsNull(m)
     THEN [st EXCEPT
             !.error = IF fetch.kind = "organization"
                       THEN "Failed to fetch organization metrics"
                       ELSE teamFetchError(fetch.teamSlug),
             !.loading = settledLoading(pending),
             !.inFlight = pending]
     ELSE IF fetch.kind = "organization"
     THEN [st EXCEPT
             !.organizationMetrics = m,
             !.filteredOrganizationMetrics = filteredMetrics,
             !.loading = settledLoading(pending),
             !.inFlight = pending]
     ELSE [st EXCEPT
             !.teamMetrics = [st.teamMetrics EXCEPT ![fetch.teamSlug] = m],
             !.filteredTeamMetrics =
                [st.filteredTeamMetrics EXCEPT ![fetch.teamSlug] = filteredMetrics],
             !.loading = settledLoading(pending),
             !.inFlight = pending]

RECURSIVE beginAll(_, _)
beginAll(st, fetches) ==
  IF fetches = {} THEN st
  ELSE LET fetch == CHOOSE f \in fetches : TRUE
       IN beginAll(beginFetch(st, fetch), fetches \ {fetch})

\* lines 308-315: refreshData after its organization fetch settled
refreshTeams(st, fetch) ==
  beginAll(st, {Fetch(fetch.id, "team", teamSlug, fetch.dateRange, TRUE, {}) :
                  teamSlug \in fetch.teams})

\* refreshData has returned: none of the fetches it awaits is pending
Refreshed(st) == \A fetch \in st.inFlight : ~fetch.awaited

\* dashboard/page.tsx lines 59-65: after await refreshData(), with the
\* dateRange and the filterByDateRange of the render of the click
afterRefresh(st, refresh) ==
  filterByDateRange(st, refresh.organizationMetrics, refresh.teamMetrics,
                    refresh.dateRange)

\* dashboard/page.tsx lines 50-53: a range is picked
HandleDateRangeChange(range) ==
  /\ pageDateRange' = range
  /\ Commit(filterByDateRange(ProviderState, organizationMetrics,
                              teamMetricsBySlug, range))
  /\ UNCHANGED <<refreshing, started>>
  /\ UNCHANGED <<filterVars, timeVars, seriesVars, normVars, serviceVars, clientVars>>

\* lines 214-230: fetchOrganizationMetrics is called
FetchOrganizationMetrics ==
  /\ started < MaxFetches
  /\ started' = started + 1
  /\ Commit(beginFetch(ProviderState,
                       Fetch(started, "organization", "none", currentDateRange,
                             FALSE, {})))
  /\ UNCHANGED <<refreshing, pageDateRange>>
  /\ UNCHANGED <<filterVars, timeVars, seriesVars, normVars, serviceVars, clientVars>>

\* lines 256-276: fetchTeamMetrics is called
FetchTeamMetrics(teamSlug) ==
  /\ started < MaxFetches
  /\ started' = started + 1
  /\ Commit(beginFetch(ProviderState,
                       Fetch(started, "team", teamSlug, currentDateRange, FALSE, {})))
  /\ UNCHANGED <<refreshing, pageDateRange>>
  /\ UNCHANGED <<filterVars, timeVars, seriesVars, normVars, serviceVars, clientVars>>

\* dashboard/page.tsx lines 56-59 and lines 304-308: the refresh button;
\* refreshData runs to the await of its organization fetch
HandleRefresh ==
  /\ ~refreshing.active
  /\ started < MaxFetches
  /\ started' = started + 1
  /\ refreshing' = [active |-> TRUE, dateRange |-> pageDateRange,
                    organizationMetrics |-> organizationMetrics,
                    teamMetrics |-> teamMetricsBySlug]
  /\ Commit(beginFetch([ProviderState EXCEPT !.error = "null"],
                       Fetch(started, "organization", "none", currentDateRange,
                             TRUE, ObjectKeysOf(teamMetricsBySlug))))
  /\ UNCHANGED pageDateRange
  /\ UNCHANGED <<filterVars, timeVars, seriesVars, normVars, serviceVars, clientVars>>

\* a pending fetch settles with m, null when the client threw; what awaits
\* it goes on
Settle(fetch, m) ==
  /\ fetch \in inFlight
  /\ LET settled == settleFetch(ProviderState, fetch, m)
         continued == IF fetch.awaited /\ fetch.kind = "organization"
                      THEN refreshTeams(settled, fetch)
                      ELSE settled
     IN IF fetch.awaited /\ Refreshed(continued)
        THEN /\ Commit(afterRefresh(continued, refreshing))
             /\ refreshing' = NoRefresh
        ELSE /\ Commit(continued)
             /\ UNCHANGED refreshing
  /\ UNCHANGED <<started, pageDateRange>>
  /\ UNCHANGED <<filterVars, timeVars, seriesVars, normVars, serviceVars, clientVars>>

\* snapshots as the client returns them for the full window
ProviderSnapshots ==
  {Snapshot(c, MaxTotal, 0, MaxCount, 0, Today - maxHistoricalDays, Today) :
     c \in {MaxTotal \div 2, MaxTotal}}

\* what a fetch can settle with: a snapshot, or null when the client threw
Outcomes(fetch) ==
  IF fetch.kind = "organization"
  THEN ProviderSnapshots \cup {NoMetrics}
  ELSE {Snapshot(MaxTotal, MaxTotal, 0, MaxCount, 0, Today - maxHistoricalDays, Today),
        NoMetrics}

SelectableRanges ==
  {[startDate |-> Today - days, endDate |-> Today] : days \in {7, 14}}

InitProvider ==
  /\ FilterIdle
  /\ TimeIdle
  /\ SeriesIdle
  /\ NormIdle
  /\ ServiceIdle
  /\ ClientIdle
  /\ ProviderIdle

NextProvider ==
  \/ \E range \in SelectableRanges : HandleDateRangeChange(range)
  \/ FetchOrganizationMetrics
  \/ \E teamSlug \in ProviderSlugs : FetchTeamMetrics(teamSlug)
  \/ HandleRefresh
  \/ \E fetch \in inFlight : \E m \in Outcomes(fetch) : Settle(fetch, m)

SpecProvider == InitProvider /\ [][NextProvider]_vars

----------------------------------------------------------------------------
(* Properties of the provider *)

Quiescent == inFlight = {}

FilteredFor(m, range) == filterDataByDateRange(m, range.startDate, range.endDate)

\* C27: whenever no fetch is in flight and organizationMetrics is not null,
\* filteredOrganizationMetrics is organizationMetrics rescaled to
\* currentDateRange, and each filteredTeamMetrics entry is its teamMetrics
\* entry rescaled to currentDateRange.
FilterConsistency ==
  (Quiescent /\ ~IsNull(organizationMetrics)) =>
    /\ filteredOrganizationMetrics = FilteredFor(organizationMetrics, currentDateRange)
    /\ \A teamSlug \in ObjectKeysOf(teamMetricsBySlug) :
         filteredTeamMetrics[teamSlug] =
           FilteredFor(teamMetricsBySlug[teamSlug], currentDateRange)

\* C28: loading is true in every state in which a fetch is in flight, and
\* it becomes false only when the last fetch in flight has settled.
LoadingWhileInFlight ==
  /\ [](inFlight # {} => loading)
  /\ [][(loading /\ ~loading') => inFlight' = {}]_vars

====
